---- MODULE Spec2Model ----
(***************************************************************************)
(* Write-ahead log of ongniud/wal: segment files made of fixed-size        *)
(* blocks, entries framed as CRC-protected chunks, a log that routes       *)
(* writes to the active segment and rotates it, position-addressed reads   *)
(* through a one-slot block cache, and a streaming reader.                 *)
(*                                                                         *)
(* Files and buffers are sequences of bytes (0..255).  The block size and  *)
(* the rotation threshold are scaled down; every other number is the       *)
(* program's.                                                              *)
(***************************************************************************)
EXTENDS Integers, Sequences, FiniteSets, TLC

\* ------------------------------------------------------------------------
\* Sizes
\* ------------------------------------------------------------------------

\* block size in bytes (32 KB in the program, scaled down)
blockSize == 16

\* size of a chunk header: crc (4) + length (2) + type (1)
chunkHeaderSize == 7

\* Options.SegmentSize, the rotation threshold (scaled down)
SegmentSize == 10

\* number of Write calls explored
MaxWrites == 2

\* number of times the log is opened again on the same directory
MaxReopens == 1

\* calls of Next made on one Reader
MaxNexts == 3

\* chunk types
kFullType == 0
kFirstType == 1
kMiddleType == 2
kLastType == 3

\* entry lengths explored: empty, small (FULL), FIRST + LAST,
\* FIRST + MIDDLE + LAST
DataLens == {0, 1, blockSize - chunkHeaderSize + 1,
             2 * (blockSize - chunkHeaderSize) + 1}

\* the entry of length n written by the i-th Write: n bytes of value i, so
\* that the entries of different calls differ
Fill(n, b) == [i \in 1..n |-> b]

Nil == [nil |-> TRUE]

\* ------------------------------------------------------------------------
\* Byte helpers
\* ------------------------------------------------------------------------

Min(a, b) == IF a < b THEN a ELSE b

Max(a, b) == IF a > b THEN a ELSE b

RECURSIVE Pow256(_)
Pow256(n) == IF n = 0 THEN 1 ELSE 256 * Pow256(n - 1)

\* binary.LittleEndian.PutUint32 / PutUint16: v truncated to n bytes
PutLE(v, n) == [i \in 1..n |-> (v \div Pow256(i - 1)) % 256]

RECURSIVE GetLE(_)
\* binary.LittleEndian.Uint32 / Uint16
GetLE(bs) == IF bs = <<>> THEN 0 ELSE bs[1] + 256 * GetLE(Tail(bs))

RECURSIVE SumBytes(_)
SumBytes(bs) == IF bs = <<>> THEN 0 ELSE bs[1] + SumBytes(Tail(bs))

\* crc32.ChecksumIEEE stand-in: a checksum of the payload that is 0 for the
\* empty payload, non-zero for a non-empty one, and changes when any single
\* byte changes (the properties of CRC-32 the program relies on); PutLE
\* truncates it to the 32 bits of the header field
ChecksumIEEE(bs) == 257 * Len(bs) + SumBytes(bs)

Zeros(n) == [i \in 1..n |-> 0]

\* s[a..b) with Go slice bounds (0-based, half-open)
Slice(s, a, b) == [i \in 1..(b - a) |-> s[a + i]]

\* ------------------------------------------------------------------------
\* Segment (in memory): id, closed, currentBlock, cachedBlock, and the
\* file offset of its descriptor fd (offset), which Seek, Read and Write
\* move.
\* The file of a segment is kept apart, in the directory.
\* ------------------------------------------------------------------------

\* the system call that fails at present ("fsync", "open", "write"), or
\* "none"
VARIABLE fault

\* NewSegment that starts an empty block after the whole blocks of the file
\* and does not load the partial trailing block
NewSegmentNoTail(id, file) ==
    [id |-> id,
     closed |-> FALSE,
     currentBlock |-> [id |-> Len(file) \div blockSize, data |-> <<>>, flushed |-> 0],
     cachedBlock |-> [id |-> -1, data |-> Zeros(blockSize)],
     offset |-> Len(file)]

\* NewSegment: open (or create) the file, load the partial trailing block;
\* the Seek to the end, or the Read of the trailing block, leaves the file
\* offset at the end of the file
NewSegment(id, file) ==
    LET offset == Len(file)
        blockCount == offset \div blockSize
        blockOccupy == offset % blockSize
        blockData == IF blockOccupy # 0
                     THEN Slice(file, offset - blockOccupy, offset)
                     ELSE <<>>
    IN [id |-> id,
        closed |-> FALSE,
        currentBlock |-> [id |-> blockCount, data |-> blockData,
                          flushed |-> Len(blockData)],
        cachedBlock |-> [id |-> -1, data |-> Zeros(blockSize)],
        offset |-> offset]

\* Segment.Size
Size(s) ==
    IF s.currentBlock.flushed = 0
    THEN s.currentBlock.id * blockSize
    ELSE IF s.currentBlock.id <= 0
         THEN s.currentBlock.flushed
         ELSE (s.currentBlock.id - 1) * blockSize + s.currentBlock.flushed

\* flushBlock that keeps the block when all of it is on disk
flushBlockNoRollover(s, file, padding) ==
    LET cb == s.currentBlock
        data0 == Slice(cb.data, cb.flushed, Len(cb.data))
    IN IF Len(data0) = 0 /\ ~padding
       THEN [seg |-> s, file |-> file, err |-> "ok"]
       ELSE LET buf == IF padding /\ Len(cb.data) < blockSize
                       THEN cb.data \o Zeros(blockSize - Len(cb.data))
                       ELSE cb.data
                data == Slice(buf, cb.flushed, Len(buf))
            IN [seg |-> [s EXCEPT !.currentBlock =
                             [id |-> cb.id, data |-> buf,
                              flushed |-> cb.flushed + Len(data)],
                           !.offset = Len(file) + Len(data)],
                file |-> file \o data, err |-> "ok"]

\* flushBlock on a file opened without O_APPEND: fd.Write puts the bytes
\* at the file offset, over what the file holds there, after a gap of
\* zeros when the offset is beyond the end
flushBlockAtOffset(s, file, padding) ==
    LET cb == s.currentBlock
        data0 == Slice(cb.data, cb.flushed, Len(cb.data))
    IN IF Len(data0) = 0 /\ ~padding
       THEN [seg |-> s, file |-> file, err |-> "ok"]
       ELSE LET buf == IF padding /\ Len(cb.data) < blockSize
                       THEN cb.data \o Zeros(blockSize - Len(cb.data))
                       ELSE cb.data
                data == Slice(buf, cb.flushed, Len(buf))
                flushed == cb.flushed + Len(data)
                nb == IF flushed = blockSize
                      THEN [id |-> cb.id + 1, data |-> <<>>, flushed |-> 0]
                      ELSE [id |-> cb.id, data |-> buf, flushed |-> flushed]
                end == s.offset + Len(data)
                out == [i \in 1..Max(Len(file), end) |->
                           IF i > s.offset /\ i <= end THEN data[i - s.offset]
                           ELSE IF i <= Len(file) THEN file[i]
                           ELSE 0]
            IN [seg |-> [s EXCEPT !.currentBlock = nb, !.offset = end],
                file |-> out, err |-> "ok"]

\* Segment.flushBlock: append the unflushed bytes of the current block to
\* the file, optionally padded to a whole block (the file is opened with
\* O_APPEND: fd.Write puts the bytes at the end of the file wherever the
\* file offset is, and leaves the offset after them); roll over to
\* the next block id once the whole block is on disk.  fd.Write fails when
\* the fault is "write": the buffer keeps the padding already appended and
\* nothing reaches the file.
\* Result: the segment, its file, and the error.
flushBlock(s, file, padding) ==
    LET cb == s.currentBlock
        data0 == Slice(cb.data, cb.flushed, Len(cb.data))
    IN IF Len(data0) = 0 /\ ~padding
       THEN [seg |-> s, file |-> file, err |-> "ok"]
       ELSE LET buf == IF padding /\ Len(cb.data) < blockSize
                       THEN cb.data \o Zeros(blockSize - Len(cb.data))
                       ELSE cb.data
                data == Slice(buf, cb.flushed, Len(buf))
                flushed == cb.flushed + Len(data)
                nb == IF flushed = blockSize
                      THEN [id |-> cb.id + 1, data |-> <<>>, flushed |-> 0]
                      ELSE [id |-> cb.id, data |-> buf, flushed |-> flushed]
            IN IF fault = "write"
               THEN [seg |-> [s EXCEPT !.currentBlock.data = buf],
                     file |-> file, err |-> "write failed"]
               ELSE [seg |-> [s EXCEPT !.currentBlock = nb,
                                       !.offset = Len(file) + Len(data)],
                     file |-> file \o data, err |-> "ok"]

\* Segment.splitIntoChunks: the chunks (payload, type) of an entry, given
\* the fill level of the current block
RECURSIVE splitRest(_, _, _)
splitRest(data, offset, remaining) ==
    IF remaining <= 0 THEN <<>>
    ELSE LET chunkSize == Min(blockSize - chunkHeaderSize, remaining)
             chunkType ==
                 IF remaining = Len(data) /\ chunkSize = Len(data) THEN kFullType
                 ELSE IF remaining = Len(data) THEN kFirstType
                 ELSE IF remaining = chunkSize THEN kLastType
                 ELSE kMiddleType
         IN <<[data |-> Slice(data, offset, offset + chunkSize),
               chunkType |-> chunkType]>>
            \o splitRest(data, offset + chunkSize, remaining - chunkSize)

\* splitIntoChunks that leaves no room for the header of the first chunk
splitIntoChunksNoHeader(s, data) ==
    LET remainingSpace == blockSize - Len(s.currentBlock.data)
    IN IF remainingSpace > 0
       THEN LET chunkSize == Min(remainingSpace, Len(data))
                chunkType == IF chunkSize = Len(data) THEN kFullType ELSE kFirstType
            IN <<[data |-> Slice(data, 0, chunkSize), chunkType |-> chunkType]>>
               \o splitRest(data, chunkSize, Len(data) - chunkSize)
       ELSE splitRest(data, 0, Len(data))

\* splitIntoChunks that emits a first chunk when the block has room for a
\* header and nothing else
splitIntoChunksBareHeader(s, data) ==
    LET remainingSpace == blockSize - Len(s.currentBlock.data) - chunkHeaderSize
    IN IF remainingSpace >= 0
       THEN LET chunkSize == Min(remainingSpace, Len(data))
                chunkType == IF chunkSize = Len(data) THEN kFullType ELSE kFirstType
            IN <<[data |-> Slice(data, 0, chunkSize), chunkType |-> chunkType]>>
               \o splitRest(data, chunkSize, Len(data) - chunkSize)
       ELSE splitRest(data, 0, Len(data))

splitIntoChunks(s, data) ==
    LET remainingSpace == blockSize - Len(s.currentBlock.data) - chunkHeaderSize
    IN IF remainingSpace > 0
       THEN LET chunkSize == Min(remainingSpace, Len(data))
                chunkType == IF chunkSize = Len(data) THEN kFullType ELSE kFirstType
            IN <<[data |-> Slice(data, 0, chunkSize), chunkType |-> chunkType]>>
               \o splitRest(data, chunkSize, Len(data) - chunkSize)
       ELSE splitRest(data, 0, Len(data))

\* the bytes of one chunk: header (crc, length, type) followed by payload
chunkBytes(data, chunkType) ==
    PutLE(ChecksumIEEE(data), 4) \o PutLE(Len(data) % 65536, 2)
    \o <<chunkType>> \o data

\* writeChunk that reports offset 0 whatever the current block holds
writeChunkNoOffset(s, data, chunkType) ==
    [seg |-> [s EXCEPT !.currentBlock.data = @ \o chunkBytes(data, chunkType)],
     pos |-> [SegmentId |-> s.id, BlockId |-> s.currentBlock.id, Offset |-> 0]]

\* Segment.writeChunk: append a chunk to the current block buffer.
\* Result: the segment and the position of the chunk.
writeChunk(s, data, chunkType) ==
    [seg |-> [s EXCEPT !.currentBlock.data = @ \o chunkBytes(data, chunkType)],
     pos |-> [SegmentId |-> s.id, BlockId |-> s.currentBlock.id,
              Offset |-> Len(s.currentBlock.data)]]

\* one iteration of the loop of Segment.Write: flush and pad the current
\* block when the chunk does not fit, then append the chunk
writeStep(s, file, chk) ==
    LET written(fl, wr) == [seg |-> wr.seg, file |-> fl.file, pos |-> wr.pos,
                            err |-> "ok"]
        flushed(fl) == IF fl.err # "ok"
                       THEN [seg |-> fl.seg, file |-> fl.file, pos |-> Nil,
                             err |-> fl.err]
                       ELSE written(fl, writeChunk(fl.seg, chk.data, chk.chunkType))
    IN flushed(IF Len(s.currentBlock.data) + chunkHeaderSize + Len(chk.data) > blockSize
               THEN flushBlock(s, file, TRUE)
               ELSE [seg |-> s, file |-> file, err |-> "ok"])

RECURSIVE writeLoop(_, _, _, _, _)
\* the loop of Segment.Write over chunks[i..]; poss collects the position
\* of every chunk written; the loop is left at the first flush that fails
writeLoop(s, file, chunks, i, poss) ==
    IF i > Len(chunks)
    THEN [seg |-> s, file |-> file, poss |-> poss, err |-> "ok"]
    ELSE LET rest(st) == IF st.err # "ok"
                         THEN [seg |-> st.seg, file |-> st.file, poss |-> poss,
                               err |-> st.err]
                         ELSE writeLoop(st.seg, st.file, chunks, i + 1,
                                        Append(poss, st.pos))
         IN rest(writeStep(s, file, chunks[i]))

\* Write that does not check whether the segment is closed
SegWriteNoClosedCheck(s, file, data) ==
    LET done(chunks, r) ==
            [seg |-> r.seg, file |-> r.file,
             pos |-> IF r.err # "ok" \/ Len(chunks) = 0 THEN Nil ELSE r.poss[1],
             err |-> r.err, chunks |-> chunks, poss |-> r.poss]
        split(chunks) == done(chunks, writeLoop(s, file, chunks, 1, <<>>))
    IN split(splitIntoChunks(s, data))

\* Segment.Write.  Result: segment, file, position of the first chunk (Nil
\* when no chunk was produced), error, and the chunks with their positions.
SegWrite(s, file, data) ==
    IF s.closed
    THEN [seg |-> s, file |-> file, pos |-> Nil, err |-> "ErrClosed",
          chunks |-> <<>>, poss |-> <<>>]
    ELSE LET done(chunks, r) ==
                 [seg |-> r.seg, file |-> r.file,
                  pos |-> IF r.err # "ok" \/ Len(chunks) = 0 THEN Nil ELSE r.poss[1],
                  err |-> r.err, chunks |-> chunks, poss |-> r.poss]
             split(chunks) == done(chunks, writeLoop(s, file, chunks, 1, <<>>))
         IN split(splitIntoChunks(s, data))

\* Segment.readBlock: the one-slot block cache, filled from the file.
\* io.ReadFull overwrites the first n bytes of the cache buffer, n being
\* the bytes the file holds from the block's offset; a short read
\* (ErrUnexpectedEOF) is accepted, an empty one (EOF) is an error raised
\* after the cache id has been set.  The Seek and the read move the file
\* offset of fd.
readBlock(s, file, blockID) ==
    IF s.closed
    THEN [seg |-> s, data |-> <<>>, err |-> "ErrClosed"]
    ELSE IF s.cachedBlock.id = blockID
    THEN [seg |-> s, data |-> s.cachedBlock.data, err |-> "ok"]
    ELSE LET blockOffset == blockID * blockSize
             n == Min(blockSize, Max(0, Len(file) - blockOffset))
             buf == [i \in 1..blockSize |->
                        IF i <= n THEN file[blockOffset + i]
                        ELSE s.cachedBlock.data[i]]
             s2 == [s EXCEPT !.cachedBlock = [id |-> blockID, data |-> buf],
                             !.offset = blockOffset + n]
         IN IF n = 0
            THEN [seg |-> s2, data |-> <<>>, err |-> "EOF"]
            ELSE [seg |-> s2, data |-> buf, err |-> "ok"]

\* readChunk that does not compare the CRC
readChunkNoCrc(data) ==
    IF Len(data) < chunkHeaderSize
    THEN [err |-> "ErrEndOfBlock", data |-> <<>>, chunkType |-> 0]
    ELSE LET length == GetLE(Slice(data, 4, 6))
             chunkType == data[7]
         IN IF length + chunkHeaderSize > Len(data)
            THEN [err |-> "ErrEndOfBlock", data |-> <<>>, chunkType |-> 0]
            ELSE [err |-> "ok",
                  data |-> Slice(data, chunkHeaderSize, chunkHeaderSize + length),
                  chunkType |-> chunkType]

\* Segment.readChunk: parse the chunk at the head of data, check its CRC.
\* The two uint32 CRCs are compared as their 4-byte little-endian encodings.
readChunk(data) ==
    IF Len(data) < chunkHeaderSize
    THEN [err |-> "ErrEndOfBlock", data |-> <<>>, chunkType |-> 0]
    ELSE LET expectedCRC == Slice(data, 0, 4)
             length == GetLE(Slice(data, 4, 6))
             chunkType == data[7]
         IN IF length + chunkHeaderSize > Len(data)
            THEN [err |-> "ErrEndOfBlock", data |-> <<>>, chunkType |-> 0]
            ELSE LET chunkData == Slice(data, chunkHeaderSize, chunkHeaderSize + length)
                     actualCRC == PutLE(ChecksumIEEE(chunkData), 4)
                 IN IF actualCRC # expectedCRC
                    THEN [err |-> "ErrInvalidCRC", data |-> <<>>, chunkType |-> 0]
                    ELSE [err |-> "ok", data |-> chunkData, chunkType |-> chunkType]

RECURSIVE readLoop(_, _, _, _)
\* the loop of Segment.Read: reassemble the entry chunk by chunk.
\* Result: the segment (its cache changes), the entry, the error, and the
\* size (header + payload) of the last chunk read.
readLoop(s, file, currPos, entry) ==
    LET rb == readBlock(s, file, currPos.BlockId)
    IN IF rb.err # "ok"
       THEN [seg |-> rb.seg, data |-> <<>>, err |-> rb.err]
       ELSE IF currPos.Offset >= Len(rb.data)
       THEN [seg |-> rb.seg, data |-> <<>>, err |-> "ErrEndOfBlock"]
       ELSE LET chk == readChunk(Slice(rb.data, currPos.Offset, Len(rb.data)))
            IN IF chk.err # "ok"
               THEN [seg |-> rb.seg, data |-> <<>>, err |-> chk.err]
               ELSE IF Len(chk.data) = 0
               THEN [seg |-> rb.seg, data |-> <<>>, err |-> "EOF"]
               ELSE IF Len(entry) = 0 /\ chk.chunkType # kFullType
                                      /\ chk.chunkType # kFirstType
               THEN [seg |-> rb.seg, data |-> <<>>, err |-> "InvalidChunkType"]
               ELSE IF Len(entry) # 0 /\ chk.chunkType # kMiddleType
                                      /\ chk.chunkType # kLastType
               THEN [seg |-> rb.seg, data |-> <<>>, err |-> "InvalidChunkType"]
               ELSE IF chk.chunkType = kLastType \/ chk.chunkType = kFullType
               THEN [seg |-> rb.seg, data |-> entry \o chk.data, err |-> "ok"]
               ELSE LET off == currPos.Offset + chunkHeaderSize + Len(chk.data)
                        next == IF off >= Len(rb.data)
                                THEN [currPos EXCEPT !.BlockId = @ + 1, !.Offset = 0]
                                ELSE [currPos EXCEPT !.Offset = off]
                    IN readLoop(rb.seg, file, next, entry \o chk.data)

\* Segment.Read
SegRead(s, file, pos) == readLoop(s, file, pos, <<>>)

\* Sync that does not check whether the segment is closed
SegSyncNoClosedCheck(s, file) ==
    LET fl == flushBlock(s, file, FALSE)
    IN [seg |-> fl.seg, file |-> fl.file,
        err |-> IF fl.err # "ok" THEN fl.err
                ELSE IF fault = "fsync" THEN "fsync failed" ELSE "ok"]

\* Segment.Sync: flush without padding, then fsync, which fails when the
\* fault is "fsync"
SegSync(s, file) ==
    IF s.closed
    THEN [seg |-> s, file |-> file, err |-> "ErrClosed"]
    ELSE LET fl == flushBlock(s, file, FALSE)
         IN [seg |-> fl.seg, file |-> fl.file,
             err |-> IF fl.err # "ok" THEN fl.err
                     ELSE IF fault = "fsync" THEN "fsync failed" ELSE "ok"]

\* Close that closes the file without flushing the current block
SegCloseNoFlush(s, file) ==
    [seg |-> [s EXCEPT !.closed = TRUE], file |-> file, err |-> "ok"]

\* Close that flushes the current block without padding it
SegCloseNoPad(s, file) ==
    IF s.closed
    THEN [seg |-> s, file |-> file, err |-> "ok"]
    ELSE LET fl == flushBlock(s, file, FALSE)
         IN [seg |-> [fl.seg EXCEPT !.closed = TRUE], file |-> fl.file,
             err |-> "ok"]

\* Segment.Close: flush with padding, fsync, mark closed, close the file;
\* the segment stays open when the flush or the fsync fails
SegClose(s, file) ==
    IF s.closed
    THEN [seg |-> s, file |-> file, err |-> "ok"]
    ELSE LET fl == flushBlock(s, file, TRUE)
         IN IF fl.err # "ok"
            THEN [seg |-> fl.seg, file |-> fl.file, err |-> fl.err]
            ELSE IF fault = "fsync"
            THEN [seg |-> fl.seg, file |-> fl.file, err |-> "fsync failed"]
            ELSE [seg |-> [fl.seg EXCEPT !.closed = TRUE], file |-> fl.file,
                  err |-> "ok"]

\* ------------------------------------------------------------------------
\* Log (WAL), its callers, the periodic sync and the streaming reader
\* ------------------------------------------------------------------------

VARIABLES
    opts,       \* WAL.opts: the Options given to Open
    disk,       \* the directory: segment id -> bytes of seg_{id}.log
    segments,   \* WAL.segments: segment id -> Segment
    active,     \* WAL.segment: id of the active segment
    walClosed,  \* WAL.closeC is closed
    mu,         \* WAL.mu: 0 when free, else the thread that holds it
    th,         \* per writer thread: where it is inside Log.Write
    reader,     \* the Reader made by NewReader, or Nil
    epoch,      \* number of times the directory has been opened again
    history,    \* every Write that returned ok: data, position, chunks
    held,       \* the Position objects the callers hold, one per history entry
    tampered,   \* the chunk a byte of which was changed in the file, or Nil
    res,        \* the last call and what it returned
    chain,      \* the run of calls Write(k); Sync that has just happened
    got,        \* what callers that keep their results got: <<entry, bytes>>
    codec,      \* a Position being encoded and decoded, or Nil
    task        \* WAL.ticker and the goroutine that runs WAL.periodicSync

vars == <<opts, disk, segments, active, walClosed, mu, th, reader, epoch, history,
          held, tampered, res, chain, got, codec, fault, task>>

\* writer threads of the concurrent specification
NumWriters == 2

Writers == 1..NumWriters

MaxId(S) == CHOOSE x \in S : \A y \in S : y <= x

NoChain == [k |-> 0, stage |-> "none"]

Idle == [pc |-> "idle"]

\* what a call returned: op, the history entry (and chunk) it was about,
\* the data and error returned, what preceded it, and whether a Read found
\* its first block in the cache
Result(op, k, c, data, err, ctx, hit) ==
    [op |-> op, k |-> k, c |-> c, data |-> data, err |-> err, ctx |-> ctx, hit |-> hit]

\* a Lock that lets the caller in whoever holds the mutex
LockNoMutex(m) == TRUE

\* sync.Mutex.Lock on WAL.mu: the caller proceeds when the mutex is free
Lock(m) == m = 0

\* the smallest id of a set of segment ids
MinId(S) == CHOOSE x \in S : \A y \in S : x <= y

\* initialize that makes the first segment found the active one
initializeFirst(d) ==
    IF DOMAIN d = {}
    THEN [disk |-> (0 :> <<>>), segments |-> (0 :> NewSegment(0, <<>>)), active |-> 0]
    ELSE [disk |-> d,
          segments |-> [id \in DOMAIN d |-> NewSegment(id, d[id])],
          active |-> MinId(DOMAIN d)]

\* WAL.initialize over the files found in the directory
initialize(d) ==
    IF DOMAIN d = {}
    THEN [disk |-> (0 :> <<>>), segments |-> (0 :> NewSegment(0, <<>>)), active |-> 0]
    ELSE [disk |-> d,
          segments |-> [id \in DOMAIN d |-> NewSegment(id, d[id])],
          active |-> MaxId(DOMAIN d)]

\* rotate that does not sync the segment it seals
rotateNoSync(segs, d, act) ==
    LET segId == act + 1
        file == IF segId \in DOMAIN d THEN d[segId] ELSE <<>>
    IN [segments |-> (segId :> NewSegment(segId, file)) @@ segs,
        disk |-> (segId :> file) @@ d,
        active |-> segId, err |-> "ok"]

\* rotate that adds the successor to the map but leaves the old segment
\* the active one
rotateKeepActive(segs, d, act) ==
    LET synced(sy) ==
            IF sy.err # "ok"
            THEN [segments |-> segs, disk |-> d, active |-> act, err |-> sy.err]
            ELSE LET segId == act + 1
                     file == IF segId \in DOMAIN d THEN d[segId] ELSE <<>>
                     segs1 == [segs EXCEPT ![act] = sy.seg]
                     d1 == [d EXCEPT ![act] = sy.file]
                 IN [segments |-> (segId :> NewSegment(segId, file)) @@ segs1,
                     disk |-> (segId :> file) @@ d1,
                     active |-> act, err |-> "ok"]
    IN synced(SegSync(segs[act], d[act]))

\* WAL.rotate: sync the active segment, create its successor; os.OpenFile
\* in NewSegment fails when the fault is "open"
rotate(segs, d, act) ==
    LET synced(sy) ==
            IF sy.err # "ok" \/ fault = "open"
            THEN [segments |-> [segs EXCEPT ![act] = sy.seg],
                  disk |-> [d EXCEPT ![act] = sy.file], active |-> act,
                  err |-> IF sy.err # "ok" THEN sy.err ELSE "open failed"]
            ELSE LET segId == act + 1
                     file == IF segId \in DOMAIN d THEN d[segId] ELSE <<>>
                     segs1 == [segs EXCEPT ![act] = sy.seg]
                     d1 == [d EXCEPT ![act] = sy.file]
                 IN [segments |-> (segId :> NewSegment(segId, file)) @@ segs1,
                     disk |-> (segId :> file) @@ d1,
                     active |-> segId, err |-> "ok"]
    IN synced(SegSync(segs[act], d[act]))

\* the head of WAL.Write: rotate when the active segment has reached the
\* threshold
rotateIfNeeded(segs, d, act) ==
    IF Size(segs[act]) >= opts.SegmentSize
    THEN rotate(segs, d, act) @@ [rotated |-> TRUE]
    ELSE [segments |-> segs, disk |-> d, active |-> act, err |-> "ok",
          rotated |-> FALSE]

RECURSIVE perChunkLoop(_, _, _, _, _, _)
\* a write loop that makes the rotation check before every chunk
perChunkLoop(segs, d, act, chunks, i, poss) ==
    IF i > Len(chunks)
    THEN [segments |-> segs, disk |-> d, active |-> act, poss |-> poss]
    ELSE LET stepped(ro, st) ==
                 perChunkLoop([ro.segments EXCEPT ![ro.active] = st.seg],
                              [ro.disk EXCEPT ![ro.active] = st.file],
                              ro.active, chunks, i + 1, Append(poss, st.pos))
             rotated(ro) ==
                 stepped(ro, writeStep(ro.segments[ro.active], ro.disk[ro.active],
                                       chunks[i]))
         IN rotated(rotateIfNeeded(segs, d, act))

\* Write that checks for rotation chunk by chunk instead of once per entry
WalWritePerChunk(segs, d, act, data) ==
    LET done(chunks, r) ==
            [segments |-> r.segments, disk |-> r.disk, active |-> r.active,
             pos |-> IF Len(chunks) = 0 THEN Nil ELSE r.poss[1],
             err |-> "ok", rotated |-> r.active # act,
             chunks |-> chunks, poss |-> r.poss]
        split(chunks) == done(chunks, perChunkLoop(segs, d, act, chunks, 1, <<>>))
    IN split(splitIntoChunks(segs[act], data))

\* WAL.Write: rotate if needed, then write to the active segment
WalWrite(segs, d, act, data) ==
    LET written(ro, w) ==
            [segments |-> [ro.segments EXCEPT ![ro.active] = w.seg],
             disk |-> [ro.disk EXCEPT ![ro.active] = w.file],
             active |-> ro.active,
             pos |-> w.pos, err |-> w.err, rotated |-> ro.rotated,
             chunks |-> w.chunks, poss |-> w.poss]
        rotated(ro) ==
            IF ro.err # "ok"
            THEN [segments |-> ro.segments, disk |-> ro.disk, active |-> ro.active,
                  pos |-> Nil, err |-> "rotation failed", rotated |-> FALSE,
                  chunks |-> <<>>, poss |-> <<>>]
            ELSE written(ro, SegWrite(ro.segments[ro.active], ro.disk[ro.active], data))
    IN rotated(rotateIfNeeded(segs, d, act))

\* bytes the segment holds, on disk or in its block buffer
LogicalSize(s) == s.currentBlock.id * blockSize + Len(s.currentBlock.data)

\* would writing data to segment s, which already holds bytes, take it
\* beyond SegmentSize
Overflows(s, file, data) ==
    /\ LogicalSize(s) > 0
    /\ LogicalSize(SegWrite(s, file, data).seg) > opts.SegmentSize

\* the record kept of a Write that returned ok
Written(data, pos, chunks, poss, rotated, over) ==
    [data |-> data, pos |-> pos, epoch |-> epoch, rotated |-> rotated, over |-> over,
     chunks |-> [i \in 1..Len(chunks) |->
                    [pos |-> poss[i], data |-> chunks[i].data,
                     chunkType |-> chunks[i].chunkType]]]

\* the ticker and the periodic sync goroutine that Open starts: the
\* goroutine waits in its select, ticker.C (capacity 1) is empty, the ticker
\* runs
FreshTask == [pc |-> "select", pending |-> FALSE, stopped |-> FALSE]

\* the log after Open on an empty directory
Fresh ==
    /\ disk = (0 :> <<>>)
    /\ segments = (0 :> NewSegment(0, <<>>))
    /\ active = 0
    /\ walClosed = FALSE
    /\ mu = 0
    /\ th = [t \in Writers |-> Idle]
    /\ reader = Nil
    /\ epoch = 0
    /\ history = <<>>
    /\ held = <<>>
    /\ tampered = Nil
    /\ res = Result("Open", 0, 0, <<>>, "ok", "none", FALSE)
    /\ chain = NoChain
    /\ got = {}
    /\ fault = "none"
    /\ task = FreshTask

Init ==
    /\ opts = [SegmentSize |-> SegmentSize]
    /\ Fresh
    /\ codec = Nil

\* the entries handed to Write so far, returned or in flight
Issued == Len(history) + Cardinality({t \in Writers : th[t].pc # "idle"})

\* Log.Write(data), as one step under the mutex
LogWrite(data) ==
    /\ Lock(mu)
    /\ \E w \in {WalWrite(segments, disk, active, data)} :
       LET h == Written(data, w.pos, w.chunks, w.poss, w.rotated,
                        Overflows(segments[active], disk[active], data))
       IN /\ segments' = w.segments
          /\ disk' = w.disk
          /\ active' = w.active
          /\ history' = IF w.err = "ok" THEN Append(history, h) ELSE history
          /\ held' = IF w.err = "ok" THEN Append(held, w.pos) ELSE held
          /\ res' = Result("Write", IF w.err = "ok" THEN Len(history) + 1 ELSE 0, 0,
                           <<>>, w.err, "none", FALSE)
          /\ chain' = IF w.err = "ok" /\ w.pos # Nil
                      THEN [k |-> Len(history) + 1, stage |-> "written"]
                      ELSE NoChain
    /\ UNCHANGED <<opts, fault, task, codec, got, walClosed, mu, th, reader, epoch, tampered>>

\* Log.Write(data), one of the calls explored
Write(data) ==
    /\ Issued < MaxWrites
    /\ LogWrite(data)

\* WAL.Read(pos)
WalRead(segs, d, pos) ==
    IF pos.SegmentId \notin DOMAIN segs
    THEN [segments |-> segs, data |-> <<>>, err |-> "SegmentNotFound"]
    ELSE LET r == SegRead(segs[pos.SegmentId], d[pos.SegmentId], pos)
         IN [segments |-> [segs EXCEPT ![pos.SegmentId] = r.seg],
             data |-> r.data, err |-> r.err]

\* does a Read at pos find its first block in the segment's cache
CacheHit(segs, pos) ==
    /\ pos.SegmentId \in DOMAIN segs
    /\ ~segs[pos.SegmentId].closed
    /\ segs[pos.SegmentId].cachedBlock.id = pos.BlockId

\* Log.Read(pos), pos being the Position the caller got from the k-th Write
Read(k) ==
    /\ Lock(mu)
    /\ held[k] # Nil
    /\ LET r == WalRead(segments, disk, held[k])
       IN /\ segments' = r.segments
          /\ res' = Result("Read", k, 1, r.data, r.err,
                           IF chain.k = k THEN chain.stage ELSE "none",
                           CacheHit(segments, held[k]))
    /\ chain' = NoChain
    /\ UNCHANGED <<opts, fault, task, codec, got, disk, active, walClosed, mu, th, reader, epoch, history, held,
                   tampered>>

\* what a sync of the active segment makes of the run Write(k); Sync
SyncChain(err) ==
    IF err = "ok" /\ chain.stage \in {"written", "synced"}
    THEN [chain EXCEPT !.stage = "synced"]
    ELSE NoChain

\* Log.Sync()
Sync ==
    /\ Lock(mu)
    /\ LET sy == SegSync(segments[active], disk[active])
       IN /\ segments' = [segments EXCEPT ![active] = sy.seg]
          /\ disk' = [disk EXCEPT ![active] = sy.file]
          /\ res' = Result("Sync", 0, 0, <<>>, sy.err, "none", FALSE)
          /\ chain' = SyncChain(sy.err)
    /\ UNCHANGED <<opts, fault, task, codec, got, active, walClosed, mu, th, reader, epoch, history, held, tampered>>

\* one tick of WAL.periodicSync, which runs until closeC is closed
Tick ==
    /\ ~walClosed
    /\ Lock(mu)
    /\ LET sy == SegSync(segments[active], disk[active])
       IN /\ segments' = [segments EXCEPT ![active] = sy.seg]
          /\ disk' = [disk EXCEPT ![active] = sy.file]
          /\ res' = Result("Tick", 0, 0, <<>>, sy.err, "none", FALSE)
          /\ chain' = SyncChain(sy.err)
    /\ UNCHANGED <<opts, fault, task, codec, got, active, walClosed, mu, th, reader, epoch, history, held, tampered>>

\* WAL.Close, when closeC is still open: close every segment
closeAll(segs, d) ==
    [segments |-> [id \in DOMAIN segs |-> SegClose(segs[id], d[id]).seg],
     disk |-> [id \in DOMAIN d |->
                  IF id \in DOMAIN segs THEN SegClose(segs[id], d[id]).file
                  ELSE d[id]],
     err |-> IF \E id \in DOMAIN segs : SegClose(segs[id], d[id]).err # "ok"
             THEN "errors while closing segments" ELSE "ok"]

\* Close that leaves the ticker running
CloseKeepTicker ==
    /\ Lock(mu)
    /\ IF walClosed
       THEN /\ UNCHANGED <<segments, disk, walClosed>>
            /\ res' = Result("Close", 0, 0, <<>>, "ok", "closed", FALSE)
       ELSE LET c == closeAll(segments, disk)
            IN /\ segments' = c.segments
               /\ disk' = c.disk
               /\ walClosed' = TRUE
               /\ res' = Result("Close", 0, 0, <<>>, c.err, "open", FALSE)
    /\ chain' = NoChain
    /\ UNCHANGED <<opts, fault, task, codec, got, active, mu, th, reader, epoch, history,
                   held, tampered>>

\* Log.Close(): nothing to do when closeC is closed already; else close it,
\* stop the ticker and close every segment
Close ==
    /\ Lock(mu)
    /\ IF walClosed
       THEN /\ UNCHANGED <<segments, disk, walClosed, task>>
            /\ res' = Result("Close", 0, 0, <<>>, "ok", "closed", FALSE)
       ELSE LET c == closeAll(segments, disk)
            IN /\ segments' = c.segments
               /\ disk' = c.disk
               /\ walClosed' = TRUE
               /\ task' = [task EXCEPT !.stopped = TRUE]
               /\ res' = Result("Close", 0, 0, <<>>, c.err, "open", FALSE)
    /\ chain' = NoChain
    /\ UNCHANGED <<opts, fault, codec, got, active, mu, th, reader, epoch, history, held, tampered>>

\* Open on the directory of a log that has been closed; the callers keep
\* the positions they hold, the reader of the old log is dropped
Reopen ==
    /\ walClosed
    /\ epoch < MaxReopens
    /\ LET o == initialize(disk)
       IN /\ disk' = o.disk
          /\ segments' = o.segments
          /\ active' = o.active
    /\ walClosed' = FALSE
    /\ epoch' = epoch + 1
    /\ reader' = Nil
    /\ task' = FreshTask
    /\ res' = Result("Open", 0, 0, <<>>, "ok", "none", FALSE)
    /\ chain' = NoChain
    /\ UNCHANGED <<opts, fault, codec, got, mu, th, history, held, tampered>>

Next ==
    \/ \E n \in DataLens : Write(Fill(n, Issued + 1))
    \/ \E k \in 1..Len(history) : Read(k)
    \/ Sync
    \/ Tick
    \/ Close
    \/ Reopen

Spec == Init /\ [][Next]_vars

\* ------------------------------------------------------------------------
\* Streaming reader
\* ------------------------------------------------------------------------

\* WAL.NewReader(pos), pos being the Position the caller got from the k-th
\* Write; the Reader keeps the caller's Position object itself (alias)
NewReader(k) ==
    /\ Lock(mu)
    /\ reader = Nil
    /\ held[k] # Nil
    /\ IF held[k].SegmentId \notin DOMAIN segments
       THEN /\ reader' = reader
            /\ res' = Result("NewReader", k, 0, <<>>, "SegmentNotFound", "none", FALSE)
       ELSE /\ reader' = [pos |-> held[k], current |-> held[k].SegmentId,
                          closed |-> FALSE, mu |-> 0, byUser |-> FALSE, alias |-> k,
                          start |-> k, calls |-> 0, hlen |-> Len(history),
                          synced |-> res.op = "Sync" /\ res.err = "ok"]
            /\ res' = Result("NewReader", k, 0, <<>>, "ok", "none", FALSE)
    /\ chain' = NoChain
    /\ UNCHANGED <<opts, fault, task, codec, got, disk, segments, active, walClosed, mu, th, epoch, history, held,
                   tampered>>

RECURSIVE nextLoopStaysOpen(_, _, _, _, _)
\* the loop of Next, but the reader is not marked closed when the segments
\* are exhausted
nextLoopStaysOpen(segs, d, pos, current, aliased) ==
    LET r == SegRead(segs[current], d[current], pos)
        segs1 == [segs EXCEPT ![current] = r.seg]
    IN IF r.err = "EOF"
       THEN LET nextSegmentId == pos.SegmentId + 1
            IN IF nextSegmentId \notin DOMAIN segs1
               THEN [segments |-> segs1, pos |-> pos, current |-> current,
                     aliased |-> aliased, closed |-> FALSE, data |-> <<>>,
                     err |-> "EOF"]
               ELSE nextLoopStaysOpen(segs1, d,
                             [SegmentId |-> nextSegmentId, BlockId |-> 0, Offset |-> 0],
                             nextSegmentId, FALSE)
       ELSE IF r.err # "ok"
       THEN [segments |-> segs1, pos |-> pos, current |-> current,
             aliased |-> aliased, closed |-> FALSE, data |-> <<>>, err |-> r.err]
       ELSE LET off == pos.Offset + chunkHeaderSize + Len(r.data)
                pos1 == IF off >= blockSize
                        THEN [pos EXCEPT !.BlockId = @ + 1, !.Offset = 0]
                        ELSE [pos EXCEPT !.Offset = off]
            IN [segments |-> segs1, pos |-> pos1, current |-> current,
                aliased |-> aliased, closed |-> FALSE, data |-> r.data, err |-> "ok"]

RECURSIVE nextLoop(_, _, _, _, _)
\* the loop of Reader.Next: read at the reader's position, move to the
\* next segment on EOF, advance the position past the entry on success.
\* Result: segments (their caches), reader position, current segment,
\* whether the position is still the caller's object, closed, data, error.
nextLoop(segs, d, pos, current, aliased) ==
    LET r == SegRead(segs[current], d[current], pos)
        segs1 == [segs EXCEPT ![current] = r.seg]
    IN IF r.err = "EOF"
       THEN LET nextSegmentId == pos.SegmentId + 1
            IN IF nextSegmentId \notin DOMAIN segs1
               THEN [segments |-> segs1, pos |-> pos, current |-> current,
                     aliased |-> aliased, closed |-> TRUE, data |-> <<>>,
                     err |-> "EOF"]
               ELSE nextLoop(segs1, d,
                             [SegmentId |-> nextSegmentId, BlockId |-> 0, Offset |-> 0],
                             nextSegmentId, FALSE)
       ELSE IF r.err # "ok"
       THEN [segments |-> segs1, pos |-> pos, current |-> current,
             aliased |-> aliased, closed |-> FALSE, data |-> <<>>, err |-> r.err]
       ELSE LET off == pos.Offset + chunkHeaderSize + Len(r.data)
                pos1 == IF off >= blockSize
                        THEN [pos EXCEPT !.BlockId = @ + 1, !.Offset = 0]
                        ELSE [pos EXCEPT !.Offset = off]
            IN [segments |-> segs1, pos |-> pos1, current |-> current,
                aliased |-> aliased, closed |-> FALSE, data |-> r.data, err |-> "ok"]

\* Reader.Next()
ReaderNext ==
    /\ reader # Nil
    /\ reader.calls < MaxNexts
    /\ IF reader.closed
       THEN /\ res' = Result("Next", reader.start + reader.calls, 0, <<>>, "EOF",
                             "closed", FALSE)
            /\ reader' = [reader EXCEPT !.calls = @ + 1]
            /\ UNCHANGED <<segments, held>>
       ELSE LET n == nextLoop(segments, disk, reader.pos, reader.current,
                              reader.alias # 0)
            IN /\ segments' = n.segments
               /\ reader' = [reader EXCEPT !.pos = n.pos, !.current = n.current,
                                           !.closed = n.closed,
                                           !.alias = IF n.aliased THEN @ ELSE 0,
                                           !.calls = @ + 1]
               /\ held' = IF n.aliased THEN [held EXCEPT ![reader.alias] = n.pos]
                          ELSE held
               /\ res' = Result("Next", reader.start + reader.calls, 0, n.data, n.err,
                                "none", FALSE)
    /\ chain' = NoChain
    /\ UNCHANGED <<opts, fault, task, codec, got, disk, active, walClosed, mu, th, epoch, history, tampered>>

\* Reader.Close(): nothing to do on a closed reader
ReaderClose ==
    /\ reader # Nil
    /\ reader' = IF reader.closed THEN reader
                 ELSE [reader EXCEPT !.closed = TRUE, !.byUser = TRUE, !.alias = 0]
    /\ res' = Result("ReaderClose", 0, 0, <<>>, "ok",
                     IF reader.closed THEN "closed" ELSE "open", FALSE)
    /\ chain' = NoChain
    /\ UNCHANGED <<opts, fault, task, codec, got, disk, segments, active, walClosed, mu, th, epoch, history, held,
                   tampered>>

NextReader ==
    \/ \E n \in DataLens : Write(Fill(n, Issued + 1))
    \/ Sync
    \/ \E k \in 1..Len(history) : NewReader(k)
    \/ ReaderNext
    \/ ReaderClose

\* the log with a streaming reader
SpecReader == Init /\ [][NextReader]_vars

\* ------------------------------------------------------------------------
\* Log.Write step by step, for writer threads that run concurrently
\* ------------------------------------------------------------------------

\* thread t, at the head of WAL.Write(data), gets the mutex, rotates if
\* needed, and enters Segment.Write on the active segment, which splits the
\* entry; when the rotation fails or the segment is closed, Write returns
\* at once and the mutex is free again
EnterWrite(t, data) ==
    /\ Lock(mu)
    /\ LET ro == rotateIfNeeded(segments, disk, active)
       IN IF ro.err # "ok" \/ ro.segments[ro.active].closed
          THEN /\ res' = Result("Write", 0, 0, <<>>,
                                IF ro.err # "ok" THEN "rotation failed" ELSE "ErrClosed",
                                "none", FALSE)
               /\ chain' = NoChain
               /\ th' = [th EXCEPT ![t] = Idle]
               /\ UNCHANGED <<segments, disk, active, mu>>
          ELSE /\ segments' = ro.segments
               /\ disk' = ro.disk
               /\ active' = ro.active
               /\ mu' = t
               /\ th' = [th EXCEPT ![t] =
                            [pc |-> "writing", data |-> data, seg |-> ro.active,
                             chunks |-> splitIntoChunks(ro.segments[ro.active], data),
                             i |-> 1, poss |-> <<>>, rotated |-> ro.rotated,
                             over |-> Overflows(segments[active], disk[active], data)]]
               /\ UNCHANGED <<res, chain>>
    /\ UNCHANGED <<opts, fault, task, codec, got, walClosed, reader, epoch, history, held, tampered>>

\* thread t calls WAL.Write(data)
WriteBegin(t, data) ==
    /\ th[t].pc = "idle"
    /\ Issued < MaxWrites
    /\ EnterWrite(t, data)

\* thread t runs one iteration of the loop of Segment.Write
WriteChunk(t) ==
    /\ th[t].pc = "writing"
    /\ th[t].i <= Len(th[t].chunks)
    /\ LET id == th[t].seg
           st == writeStep(segments[id], disk[id], th[t].chunks[th[t].i])
       IN /\ segments' = [segments EXCEPT ![id] = st.seg]
          /\ disk' = [disk EXCEPT ![id] = st.file]
          /\ th' = [th EXCEPT ![t].i = @ + 1, ![t].poss = Append(@, st.pos)]
    /\ UNCHANGED <<opts, fault, task, codec, got, active, walClosed, mu, reader, epoch, history, held, tampered,
                   res, chain>>

\* thread t returns from WAL.Write and releases the mutex
WriteEnd(t) ==
    /\ th[t].pc = "writing"
    /\ th[t].i > Len(th[t].chunks)
    /\ LET pos == IF Len(th[t].chunks) = 0 THEN Nil ELSE th[t].poss[1]
       IN /\ history' = Append(history, Written(th[t].data, pos, th[t].chunks,
                                                th[t].poss, th[t].rotated, th[t].over))
          /\ held' = Append(held, pos)
          /\ res' = Result("Write", Len(history) + 1, 0, <<>>, "ok", "none", FALSE)
          /\ chain' = IF pos # Nil THEN [k |-> Len(history) + 1, stage |-> "written"]
                      ELSE NoChain
    /\ th' = [th EXCEPT ![t] = Idle]
    /\ mu' = 0
    /\ UNCHANGED <<opts, fault, task, codec, got, disk, segments, active, walClosed, reader, epoch, tampered>>

\* every Write has returned and the log has been synced since
Quiesced ==
    /\ Len(history) = MaxWrites
    /\ \A t \in Writers : th[t].pc = "idle"
    /\ res.op \in {"Sync", "Read"}

NextConc ==
    \/ \E t \in Writers, n \in DataLens : WriteBegin(t, Fill(n, Issued + 1))
    \/ \E t \in Writers : WriteChunk(t)
    \/ \E t \in Writers : WriteEnd(t)
    \/ Tick
    \/ Sync
    \/ \E k \in 1..Len(history) : Quiesced /\ Read(k)

\* writer threads and the periodic sync run concurrently; the positions
\* are read back once every Write has returned and the log has been synced
SpecConc == Init /\ [][NextConc]_vars

\* ------------------------------------------------------------------------
\* A byte of a segment file changed from outside
\* ------------------------------------------------------------------------

\* values a tampered byte is set to
TamperBytes == {255}

\* the chunk c of an entry is in its segment file, at the file offset its
\* position names
ChunkOnDisk(c) ==
    LET off == c.pos.BlockId * blockSize + c.pos.Offset
        bytes == chunkBytes(c.data, c.chunkType)
    IN /\ c.pos.SegmentId \in DOMAIN disk
       /\ Len(disk[c.pos.SegmentId]) >= off + Len(bytes)
       /\ Slice(disk[c.pos.SegmentId], off, off + Len(bytes)) = bytes

\* byte offsets, inside a chunk with n payload bytes, of the CRC field and
\* of the payload
CrcAndPayload(n) == (0..3) \cup (chunkHeaderSize..(chunkHeaderSize + n - 1))

\* a byte of the CRC field or of the payload of the i-th chunk of entry k,
\* which has been flushed, is set to another value in the segment file
Tamper(k, i) ==
    /\ tampered = Nil
    /\ LET c == history[k].chunks[i]
           first == c.pos.BlockId * blockSize + c.pos.Offset + 1
       IN /\ ChunkOnDisk(c)
          /\ \E j \in CrcAndPayload(Len(c.data)), v \in TamperBytes :
                /\ disk[c.pos.SegmentId][first + j] # v
                /\ disk' = [disk EXCEPT ![c.pos.SegmentId][first + j] = v]
    /\ tampered' = [k |-> k, i |-> i]
    /\ res' = Result("Tamper", k, i, <<>>, "ok", "none", FALSE)
    /\ chain' = NoChain
    /\ UNCHANGED <<opts, fault, task, codec, got, segments, active, walClosed, mu, th, reader, epoch, history, held>>

\* Log.Read at the position of the i-th chunk of entry k
ReadChunk(k, i) ==
    /\ Lock(mu)
    /\ LET pos == history[k].chunks[i].pos
           r == WalRead(segments, disk, pos)
       IN /\ segments' = r.segments
          /\ res' = Result("Read", k, i, r.data, r.err, "none", CacheHit(segments, pos))
    /\ chain' = NoChain
    /\ UNCHANGED <<opts, fault, task, codec, got, disk, active, walClosed, mu, th, reader, epoch, history, held,
                   tampered>>

NextTamper ==
    \/ \E n \in DataLens : tampered = Nil /\ Write(Fill(n, Issued + 1))
    \/ tampered = Nil /\ Sync
    \/ \E k \in 1..Len(history) : \E i \in 1..Len(history[k].chunks) :
          /\ IF tampered = Nil THEN i = 1 ELSE (k = tampered.k /\ i = tampered.i)
          /\ ReadChunk(k, i)
    \/ \E k \in 1..Len(history) : \E i \in 1..Len(history[k].chunks) : Tamper(k, i)

\* the log written, synced and read at the positions of its entries, then
\* one byte of a flushed chunk changed in its file, then Reads at the
\* position of that chunk
SpecTamper == Init /\ [][NextTamper]_vars

\* ------------------------------------------------------------------------
\* Properties
\* ------------------------------------------------------------------------

\* the Writes that returned a position for a non-empty entry
Entries == {k \in 1..Len(history) : history[k].pos # Nil /\ history[k].data # <<>>}

\* lexicographic order of positions
PosLess(p, q) ==
    \/ p.SegmentId < q.SegmentId
    \/ p.SegmentId = q.SegmentId /\ p.BlockId < q.BlockId
    \/ p.SegmentId = q.SegmentId /\ p.BlockId = q.BlockId /\ p.Offset < q.Offset

EntryOnDisk(k) == \A i \in 1..Len(history[k].chunks) : ChunkOnDisk(history[k].chunks[i])

\* C1: Read of the position a Write has just returned, with nothing in
\* between, returns the bytes written
C1_RoundTripNoSync ==
    (res.op = "Read" /\ res.ctx = "written" /\ res.k \in Entries)
        => (res.err = "ok" /\ res.data = history[res.k].data)

\* C2: Write(data); successful Sync; Read(pos) returns data, in whatever
\* state the log was before
C2_RoundTripAfterSync ==
    (res.op = "Read" /\ res.ctx = "synced" /\ res.k \in Entries)
        => (res.err = "ok" /\ res.data = history[res.k].data)

\* C3: after Close and a new Open on the same directory, Read on the open
\* log of a position handed out before the close returns the bytes written
C3_DurableAcrossReopen ==
    (res.op = "Read" /\ res.k \in Entries /\ history[res.k].epoch < epoch
                    /\ ~walClosed)
        => (res.err = "ok" /\ res.data = history[res.k].data)

C3_Witness ==
    /\ res.op = "Read" /\ res.k \in Entries /\ history[res.k].epoch < epoch
    /\ Len(history[res.k].chunks) > 1
    /\ res.err = "ok" /\ res.data = history[res.k].data
    /\ \E j \in Entries : history[j].epoch = epoch

\* C4: within one open log the positions returned by Write are strictly
\* increasing
C4_PositionOrdering ==
    \A i, j \in 1..Len(history) :
        (i < j /\ history[i].epoch = history[j].epoch
               /\ history[i].pos # Nil /\ history[j].pos # Nil)
            => PosLess(history[i].pos, history[j].pos)

C4_Witness ==
    \/ \E i, j \in 1..Len(history) :
          /\ i < j /\ history[i].epoch = history[j].epoch
          /\ history[i].pos # Nil /\ history[j].pos # Nil
          /\ Len(history[i].chunks) > 1
          /\ history[i].pos.SegmentId < history[j].pos.SegmentId
          /\ PosLess(history[i].pos, history[j].pos)
    \/ \E i, j \in 1..Len(history) :
          /\ i < j /\ history[i].epoch = history[j].epoch
          /\ history[i].pos # Nil /\ history[j].pos # Nil
          /\ history[i].pos.SegmentId = history[j].pos.SegmentId
          /\ history[i].pos.BlockId < history[j].pos.BlockId
          /\ res.op = "Sync"
          /\ PosLess(history[i].pos, history[j].pos)

\* C7: a Write that would take the active segment, which already holds an
\* entry, beyond SegmentSize is stored in a new segment
C7_RotateBeforeOverflow ==
    \A k \in 2..Len(history) :
        (history[k].over /\ history[k].pos # Nil /\ history[k - 1].pos # Nil
                         /\ history[k].epoch = history[k - 1].epoch)
            => history[k].pos.SegmentId > history[k - 1].pos.SegmentId

\* C8: when Sync (or a tick of the periodic sync) has returned ok, every
\* chunk of every entry written so far is in its segment file
C8_SyncFlushesWholeLog ==
    (res.op \in {"Sync", "Tick"} /\ res.err = "ok")
        => \A k \in 1..Len(history) : EntryOnDisk(k)

C8_Witness ==
    /\ res.op = "Sync" /\ res.err = "ok"
    /\ \E i, j \in Entries : /\ history[i].pos.SegmentId < active
                             /\ history[j].pos.SegmentId = active
                             /\ Len(history[i].chunks) > 1
    /\ \A k \in 1..Len(history) : EntryOnDisk(k)

\* C10: a second Close returns ok and leaves every segment and file as it
\* is; Sync after Close returns an error
C10_IdempotentClose ==
    [][/\ (walClosed /\ Close) => (res'.err = "ok" /\ UNCHANGED <<segments, disk, active>>)
       /\ (walClosed /\ Sync) => (res'.err # "ok" /\ UNCHANGED <<segments, disk, active>>)]_vars

C10_Witness ==
    /\ walClosed /\ res.op = "Sync" /\ res.err = "ErrClosed"
    /\ Entries # {}

\* C5: after writes of non-empty entries and a successful Sync, a Reader
\* made at the position of an entry returns that entry and the ones written
\* after it, in order, and then EOF
C5_StreamingRead ==
    (/\ res.op = "Next" /\ reader # Nil /\ reader.synced /\ ~reader.byUser
     /\ reader.hlen = Len(history)
     /\ \A j \in 1..Len(history) : j \in Entries)
        => IF res.k <= Len(history)
           THEN res.err = "ok" /\ res.data = history[res.k].data
           ELSE res.err = "EOF"

\* the chunks of entry i all come before, or all come after, those of entry j
Apart(i, j) ==
    LET ci == history[i].chunks
        cj == history[j].chunks
    IN \/ \A a \in 1..Len(ci), b \in 1..Len(cj) : PosLess(ci[a].pos, cj[b].pos)
       \/ \A a \in 1..Len(ci), b \in 1..Len(cj) : PosLess(cj[b].pos, ci[a].pos)

\* C6: concurrent Writes are serialized: they return distinct positions,
\* the chunks of two entries do not interleave, and after a Sync every
\* position reads back the bytes of the call that returned it
C6_ConcurrentWriters ==
    /\ \A i, j \in 1..Len(history) :
          i # j => /\ (history[i].pos # Nil /\ history[j].pos # Nil)
                        => history[i].pos # history[j].pos
                   /\ Apart(i, j)
    /\ (res.op = "Sync" /\ res.err = "ok" /\ \A t \in Writers : th[t].pc = "idle")
          => \A k \in 1..Len(history) : EntryOnDisk(k)
    /\ (res.op = "Read" /\ res.k \in Entries)
          => (res.err = "ok" /\ res.data = history[res.k].data)

C6_Witness ==
    /\ res.op = "Read" /\ res.k \in Entries /\ res.err = "ok"
    /\ Len(history[res.k].chunks) > 1
    /\ \E j \in Entries : j # res.k /\ Len(history[j].chunks) > 1

\* C9 as stated: once a byte of the payload or of the CRC field of a
\* flushed chunk has been changed in the file, Read at the chunk's position
\* returns ErrInvalidCRC and no data
C9_TamperDetected ==
    (res.op = "Read" /\ tampered # Nil /\ res.k = tampered.k /\ res.c = tampered.i)
        => (res.err = "ErrInvalidCRC" /\ res.data = <<>>)

\* C9, amended: ... when the Read loads the chunk's block from the file
\* (the block is not the one held in the segment's one-slot cache)
C9_TamperDetectedOnLoad ==
    (res.op = "Read" /\ tampered # Nil /\ res.k = tampered.k /\ res.c = tampered.i
                    /\ ~res.hit)
        => (res.err = "ErrInvalidCRC" /\ res.data = <<>>)

C9_Witness ==
    /\ res.op = "Read" /\ tampered # Nil /\ res.k = tampered.k /\ res.c = tampered.i
    /\ ~res.hit
    /\ history[res.k].chunks[res.c].chunkType = kMiddleType
    /\ res.err = "ErrInvalidCRC"

\* ------------------------------------------------------------------------
\* The log opened with a rotation threshold of more than two blocks
\* ------------------------------------------------------------------------

\* Options.SegmentSize of that log
LargeSegmentSize == 33

InitLarge ==
    /\ opts = [SegmentSize |-> LargeSegmentSize]
    /\ Fresh
    /\ codec = Nil

SpecLarge == InitLarge /\ [][Next]_vars

\* C11: on a closed log every Write, Read and Sync returns an error, and
\* leaves every segment file, every segment and the segment map as they are
C11_ClosedLogRejects ==
    [][(walClosed /\ res'.op \in {"Write", "Read", "Sync"})
          => (res'.err # "ok" /\ UNCHANGED <<disk, segments, active>>)]_vars

C11_Witness ==
    /\ walClosed /\ res.op = "Write" /\ res.err = "rotation failed"
    /\ Entries # {}
    /\ DOMAIN segments = {0}

\* ------------------------------------------------------------------------
\* The log written with records of one size, by callers that keep what
\* each Read returned
\* ------------------------------------------------------------------------

\* number of records written
MaxRecords == 4

\* length of a record
RecordLen == 1

WriteRecord ==
    /\ Issued < MaxRecords
    /\ LogWrite(Fill(RecordLen, Issued + 1))

\* Log.Read(pos), pos being the Position the caller got from the k-th
\* Write; the caller keeps the bytes of the first Read of pos that succeeds
ReadKeep(k) ==
    /\ Lock(mu)
    /\ held[k] # Nil
    /\ \E r \in {WalRead(segments, disk, held[k])} :
          /\ segments' = r.segments
          /\ res' = Result("Read", k, 1, r.data, r.err, "none",
                           CacheHit(segments, held[k]))
          /\ got' = IF r.err = "ok" /\ ~(\E g \in got : g[1] = k)
                    THEN got \cup {<<k, r.data>>}
                    ELSE got
    /\ chain' = NoChain
    /\ UNCHANGED <<opts, fault, task, codec, disk, active, walClosed, mu, th, reader, epoch, history,
                   held, tampered>>

NextRecords ==
    \/ WriteRecord
    \/ Sync
    \/ \E k \in 1..Len(history) : ReadKeep(k)

SpecRecords == Init /\ [][NextRecords]_vars

\* C12: once a Read of a position has returned bytes, every later Read of
\* that position on the open log returns the same bytes
C12_PositionsStayValid ==
    (res.op = "Read" /\ ~walClosed)
        => \A g \in got : g[1] = res.k => (res.err = "ok" /\ res.data = g[2])

\* the chunk c of an entry is where its position says: in the file of the
\* segment, or still in the buffer of the segment's current block
ChunkInSegment(c) ==
    \/ ChunkOnDisk(c)
    \/ /\ c.pos.SegmentId \in DOMAIN segments
       /\ LET cb == segments[c.pos.SegmentId].currentBlock
              bytes == chunkBytes(c.data, c.chunkType)
          IN /\ cb.id = c.pos.BlockId
             /\ Len(cb.data) >= c.pos.Offset + Len(bytes)
             /\ Slice(cb.data, c.pos.Offset, c.pos.Offset + Len(bytes)) = bytes

\* C13: all chunks of an entry are stored in one segment, the one its
\* position names
C13_EntryInOneSegment ==
    \A k \in 1..Len(history) : \A i \in 1..Len(history[k].chunks) :
        /\ history[k].chunks[i].pos.SegmentId = history[k].pos.SegmentId
        /\ ChunkInSegment(history[k].chunks[i])

C13_Witness ==
    \E k \in Entries :
        /\ Len(history[k].chunks) = 3
        /\ history[k].pos.SegmentId = 0
        /\ active = 1
        /\ Len(history[k].data) > opts.SegmentSize
        /\ \A i \in 1..3 : ChunkOnDisk(history[k].chunks[i])

\* C14: a chunk written at offset o of a block with payload length L has
\* o + 7 + L <= blockSize; no block buffer is longer than a block, and the
\* chunk is stored at that offset of its block
C14_ChunkWithinBlock ==
    /\ \A id \in DOMAIN segments :
          Len(segments[id].currentBlock.data) <= blockSize
    /\ \A k \in 1..Len(history) : \A i \in 1..Len(history[k].chunks) :
          LET c == history[k].chunks[i]
          IN /\ c.pos.Offset >= 0
             /\ c.pos.Offset + chunkHeaderSize + Len(c.data) <= blockSize
             /\ ChunkInSegment(c)

C14_Witness ==
    \E k \in Entries :
        /\ Len(history[k].chunks) = 2
        /\ history[k].chunks[1].pos.Offset > 0
        /\ history[k].chunks[1].pos.Offset + chunkHeaderSize
               + Len(history[k].chunks[1].data) = blockSize
        /\ history[k].chunks[2].pos.Offset = 0
        /\ ChunkOnDisk(history[k].chunks[1])
        /\ ChunkOnDisk(history[k].chunks[2])

\* the bytes segment id holds: its file, then the part of the current
\* block that is not flushed yet
Content(segs, d, id) ==
    d[id] \o Slice(segs[id].currentBlock.data, segs[id].currentBlock.flushed,
                   Len(segs[id].currentBlock.data))

\* b is a, or a padded with zeros up to a block boundary
PaddedOnly(a, b) ==
    /\ Len(b) >= Len(a)
    /\ Slice(b, 0, Len(a)) = a
    /\ \A i \in (Len(a) + 1)..Len(b) : b[i] = 0
    /\ Len(b) > Len(a) => (Len(b) % blockSize = 0 /\ Len(b) - Len(a) <= blockSize)

\* C15 (state): the active segment is in the map and has the largest id
C15_ActiveIsLast ==
    /\ active \in DOMAIN segments
    /\ DOMAIN segments = DOMAIN disk
    /\ active = MaxId(DOMAIN segments)

\* C15: exactly one segment is active, the one with the largest id, and
\* a step adds entry chunks to no segment but the active one: every other
\* segment keeps its bytes (Close pads them with zeros)
C15_SingleActiveSegment ==
    [][/\ C15_ActiveIsLast /\ C15_ActiveIsLast'
       /\ \A id \in DOMAIN segments :
             /\ id \in DOMAIN segments'
             /\ id # active' =>
                   PaddedOnly(Content(segments, disk, id),
                              Content(segments', disk', id))]_vars

C15_Witness ==
    /\ epoch = 1 /\ ~walClosed
    /\ active = 1 /\ DOMAIN segments = {0, 1}
    /\ \E k \in Entries : history[k].epoch = 1 /\ history[k].pos.SegmentId = 1
    /\ \E k \in Entries : history[k].epoch = 0 /\ history[k].pos.SegmentId = 0

\* C16: Size() of every segment is currentBlock.id * blockSize +
\* currentBlock.flushed, the number of bytes written to its file
C16_SizeIsFlushedBytes ==
    \A id \in DOMAIN segments :
        /\ Size(segments[id]) = segments[id].currentBlock.id * blockSize
                                  + segments[id].currentBlock.flushed
        /\ Size(segments[id]) = Len(disk[id])

\* C17: over a successful Write, Sync or tick the Size() of a segment does
\* not decrease
C17_SizeMonotonic ==
    [][(res'.op \in {"Write", "Sync", "Tick"} /\ res'.err = "ok")
          => \A id \in DOMAIN segments :
                Size(segments'[id]) >= Size(segments[id])]_vars

\* C18: no Write of an empty entry succeeds, no Write appends a
\* zero-length FULL chunk, and no Write succeeds without a position
C18_EmptyRejected ==
    \A k \in 1..Len(history) :
        /\ history[k].data # <<>>
        /\ history[k].pos # Nil
        /\ \A i \in 1..Len(history[k].chunks) :
              ~(/\ history[k].chunks[i].chunkType = kFullType
                /\ history[k].chunks[i].data = <<>>)

\* ---------------------------------------------------------------------
\* Position codec.  A Go int is IntBytes wide (4 on 32-bit builds, 8 on
\* 64-bit builds); it is kept as its little-endian two's-complement bytes,
\* so that uint32(x) truncates and int(u) zero-extends as the code does.
\* ---------------------------------------------------------------------
positionSize == 12
uint32Size == 4
IntWidths == {4, 8}

\* the low bytes of the field values tried; the rest of the int is zero
\* (0, 1, 256, 2^31 - 1, 2^31, 2^32 - 1, 2^32) or all ones (-1)
FieldPatterns ==
    {<<>>, <<1>>, <<0, 1>>, <<255, 255, 255, 127>>, <<0, 0, 0, 128>>,
     <<255, 255, 255, 255>>, <<0, 0, 0, 0, 1>>}

IntOf(bs, w) == [i \in 1..w |-> IF i <= Len(bs) THEN bs[i] ELSE 0]

MinusOne(w) == [i \in 1..w |-> 255]

FieldVals(w) == {IntOf(b, w) : b \in FieldPatterns} \cup {MinusOne(w)}

\* uint32(x): the low four bytes
Uint32Of(x) == SubSeq(x, 1, uint32Size)

\* the int x is a number of 0..2^32-1
InRange(x) ==
    IF Len(x) > uint32Size
        THEN \A i \in (uint32Size + 1)..Len(x) : x[i] = 0
        ELSE x[Len(x)] < 128

Position(s, b, o) == [SegmentId |-> s, BlockId |-> b, Offset |-> o]

Encode(p) == Uint32Of(p.SegmentId) \o Uint32Of(p.BlockId) \o Uint32Of(p.Offset)

\* Decode that reads the block id's bytes for the offset as well
DecodeDupField(p, data) ==
    IF Len(data) # positionSize
        THEN [p |-> p, err |-> "invalid format"]
        ELSE LET w == Len(p.SegmentId)
             IN  [p |-> Position(IntOf(SubSeq(data, 1, 4), w),
                                 IntOf(SubSeq(data, 5, 8), w),
                                 IntOf(SubSeq(data, 5, 8), w)),
                  err |-> "ok"]

Decode(p, data) ==
    IF Len(data) # positionSize
        THEN [p |-> p, err |-> "invalid format"]
        ELSE LET w == Len(p.SegmentId)
             IN  [p |-> Position(IntOf(SubSeq(data, 1, 4), w),
                                 IntOf(SubSeq(data, 5, 8), w),
                                 IntOf(SubSeq(data, 9, 12), w)),
                  err |-> "ok"]

\* a character of a hex string is its place in "0123456789abcdefABCDEFg"
\* (counted from 0): lower-case digits, upper-case letters, and one
\* character that is no hex digit
InvalidChar == 22

RECURSIVE hexEncodeToString(_)
hexEncodeToString(bs) ==
    IF bs = <<>> THEN <<>>
    ELSE <<bs[1] \div 16, bs[1] % 16>> \o hexEncodeToString(Tail(bs))

fromHexChar(c) == IF c < 16 THEN c ELSE IF c < InvalidChar THEN c - 6 ELSE -1

RECURSIVE hexPairs(_)
hexPairs(str) ==
    IF Len(str) < 2 THEN <<>>
    ELSE <<16 * fromHexChar(str[1]) + fromHexChar(str[2])>> \o hexPairs(Tail(Tail(str)))

hexDecodeString(str) ==
    IF \E i \in 1..Len(str) : fromHexChar(str[i]) < 0
        THEN [bytes |-> <<>>, err |-> "invalid byte"]
    ELSE IF Len(str) % 2 = 1
        THEN [bytes |-> <<>>, err |-> "odd length hex string"]
    ELSE [bytes |-> hexPairs(str), err |-> "ok"]

EncodeString(p) == hexEncodeToString(Encode(p))

DecodeString(p, str) ==
    LET h == hexDecodeString(str)
    IN  IF h.err # "ok" THEN [p |-> p, err |-> h.err] ELSE Decode(p, h.bytes)

\* the same hex string written with upper-case letters
Upper(str) == [i \in 1..Len(str) |-> IF str[i] \in 10..15 THEN str[i] + 6 ELSE str[i]]

\* the buffers handed to Decode after Encode returned buf
Buffers(buf) ==
    {buf, <<>>, SubSeq(buf, 1, Len(buf) - 1), buf \o <<0>>, buf \o buf}

\* the strings handed to DecodeString after EncodeString returned str
Strings(str) ==
    {str, Upper(str), <<>>, Tail(str), Tail(Tail(str)), str \o <<0, 0>>,
     [str EXCEPT ![1] = InvalidChar]}

\* p is the Position encoded, q the Position decoded into, out what the
\* last Encode or EncodeString returned, arg what the last Decode or
\* DecodeString was given, before the value of q when it was called
InitCodec ==
    /\ opts = [SegmentSize |-> SegmentSize]
    /\ Fresh
    /\ \E w \in IntWidths :
         \E s \in FieldVals(w), b \in FieldVals(w), o \in FieldVals(w) :
           \E q \in {Position(IntOf(<<>>, w), IntOf(<<>>, w), IntOf(<<>>, w)),
                     Position(IntOf(<<7>>, w), IntOf(<<8>>, w), IntOf(<<9>>, w))} :
             codec = [p |-> Position(s, b, o), q |-> q, op |-> "new", out |-> <<>>,
                      arg |-> <<>>, before |-> q, err |-> "ok"]

CodecEncode ==
    /\ codec.op = "new"
    /\ codec' = [codec EXCEPT !.op = "Encode", !.out = Encode(codec.p)]
    /\ UNCHANGED <<opts, fault, task, disk, segments, active, walClosed, mu, th, reader,
                   epoch,
                   history, held, tampered, res, chain, got>>

CodecEncodeString ==
    /\ codec.op = "new"
    /\ codec' = [codec EXCEPT !.op = "EncodeString", !.out = EncodeString(codec.p)]
    /\ UNCHANGED <<opts, fault, task, disk, segments, active, walClosed, mu, th, reader,
                   epoch,
                   history, held, tampered, res, chain, got>>

CodecDecode ==
    /\ codec.op = "Encode"
    /\ \E data \in Buffers(codec.out) :
         \E d \in {Decode(codec.q, data)} :
           codec' = [codec EXCEPT !.op = "Decode", !.arg = data, !.before = codec.q,
                                  !.q = d.p, !.err = d.err]
    /\ UNCHANGED <<opts, fault, task, disk, segments, active, walClosed, mu, th, reader,
                   epoch,
                   history, held, tampered, res, chain, got>>

CodecDecodeString ==
    /\ codec.op = "EncodeString"
    /\ \E str \in Strings(codec.out) :
         \E d \in {DecodeString(codec.q, str)} :
           codec' = [codec EXCEPT !.op = "DecodeString", !.arg = str, !.before = codec.q,
                                  !.q = d.p, !.err = d.err]
    /\ UNCHANGED <<opts, fault, task, disk, segments, active, walClosed, mu, th, reader,
                   epoch,
                   history, held, tampered, res, chain, got>>

NextCodec ==
    \/ CodecEncode
    \/ CodecEncodeString
    \/ CodecDecode
    \/ CodecDecodeString

SpecCodec == InitCodec /\ [][NextCodec]_vars

AllInRange(p) == InRange(p.SegmentId) /\ InRange(p.BlockId) /\ InRange(p.Offset)

\* the value of a little-endian u32, compared byte by byte with the field
IsLittleEndianU32(bs, x) ==
    /\ Len(bs) = uint32Size
    /\ \A i \in 1..uint32Size : bs[i] = x[i]

\* C19: for every Position whose three fields lie in 0..2^32-1, Encode
\* yields exactly 12 bytes, the three fields as little-endian u32s, and
\* Decode of them gives the Position back; EncodeString followed by
\* DecodeString gives it back as well; and Decode of a buffer whose length
\* is not 12 fails and leaves the Position unchanged.
C19_CodecRoundTrip ==
    /\ (codec.op = "Encode" /\ AllInRange(codec.p)) =>
          /\ Len(codec.out) = positionSize
          /\ IsLittleEndianU32(SubSeq(codec.out, 1, 4), codec.p.SegmentId)
          /\ IsLittleEndianU32(SubSeq(codec.out, 5, 8), codec.p.BlockId)
          /\ IsLittleEndianU32(SubSeq(codec.out, 9, 12), codec.p.Offset)
    /\ (codec.op = "Decode" /\ AllInRange(codec.p) /\ codec.arg = codec.out) =>
          (codec.err = "ok" /\ codec.q = codec.p)
    /\ (codec.op = "DecodeString" /\ AllInRange(codec.p) /\ codec.arg = codec.out) =>
          (codec.err = "ok" /\ codec.q = codec.p)
    /\ (codec.op = "Decode" /\ Len(codec.arg) # positionSize) =>
          (codec.err # "ok" /\ codec.q = codec.before)

\* a Position with 2^32 - 1, 2^31 and 256 in its fields came back from
\* DecodeString, decoded over a Position that held other values
C19_Witness ==
    /\ Len(codec.p.SegmentId) = 8
    /\ codec.op = "DecodeString"
    /\ codec.arg = codec.out
    /\ codec.p = Position(IntOf(<<255, 255, 255, 255>>, 8), IntOf(<<0, 0, 0, 128>>, 8),
                          IntOf(<<0, 1>>, 8))
    /\ codec.before # codec.p
    /\ codec.before.Offset = IntOf(<<9>>, 8)
    /\ codec.q = codec.p

\* bytes the chunks of an entry take in a segment, headers included
RECURSIVE ChunkBytes(_)
ChunkBytes(chunks) ==
    IF chunks = <<>> THEN 0
    ELSE chunkHeaderSize + Len(chunks[1].data) + ChunkBytes(Tail(chunks))

\* C20: when Log.Write finds the active segment's Size() at or above the
\* threshold and returns without error, a segment whose id is the previous
\* active id plus one has been added to the map and is active, it held
\* nothing before the entry (the entry's chunks are all it holds), and the
\* position returned is (previous id + 1, 0, 0).
C20_RotationLandsAtStart ==
    [][(/\ res'.op = "Write"
        /\ res'.err = "ok"
        /\ Size(segments[active]) >= opts.SegmentSize)
          => /\ active' = active + 1
             /\ active' \notin DOMAIN segments
             /\ DOMAIN segments' = DOMAIN segments \cup {active'}
             /\ Len(history') = Len(history) + 1
             /\ history'[Len(history')].rotated
             /\ history'[Len(history')].pos =
                    [SegmentId |-> active + 1, BlockId |-> 0, Offset |-> 0]
             /\ LogicalSize(segments'[active']) = ChunkBytes(history'[Len(history')].chunks)
             /\ \A i \in 1..Len(history'[Len(history')].chunks) :
                    history'[Len(history')].chunks[i].pos.SegmentId = active']_vars

\* the last Write rotated from segment 0 to segment 1, wrote an entry of
\* two chunks there and returned (1, 0, 0)
C20_Witness ==
    /\ res.op = "Write"
    /\ res.err = "ok"
    /\ active = 1
    /\ res.k = Len(history)
    /\ res.k > 1
    /\ history[res.k].rotated
    /\ history[res.k].pos = [SegmentId |-> 1, BlockId |-> 0, Offset |-> 0]
    /\ Len(history[res.k].chunks) = 2
    /\ Size(segments[1]) = blockSize

\* ---------------------------------------------------------------------
\* System calls that fail
\* ---------------------------------------------------------------------

\* the failures explored: fd.Sync of Segment.Sync, os.OpenFile of NewSegment
Faults == {"fsync", "open"}

\* the system call f starts to fail
Break(f) ==
    /\ fault = "none"
    /\ fault' = f
    /\ res' = Result("Break", 0, 0, <<>>, "ok", "none", FALSE)
    /\ chain' = NoChain
    /\ UNCHANGED <<opts, task, codec, got, disk, segments, active, walClosed, mu, th, reader,
                   epoch, history, held, tampered>>

\* the system call that failed works again
Heal ==
    /\ fault # "none"
    /\ fault' = "none"
    /\ res' = Result("Heal", 0, 0, <<>>, "ok", "none", FALSE)
    /\ chain' = NoChain
    /\ UNCHANGED <<opts, task, codec, got, disk, segments, active, walClosed, mu, th, reader,
                   epoch, history, held, tampered>>

\* Log.Write(data) called while a system call fails and the active segment
\* is due for rotation
WriteDuringFault(data) ==
    /\ fault # "none"
    /\ Size(segments[active]) >= opts.SegmentSize
    /\ LogWrite(data)

NextFault ==
    \/ \E n \in DataLens : Write(Fill(n, Issued + 1))
    \/ \E n \in DataLens : WriteDuringFault(Fill(n, Issued + 1))
    \/ \E k \in 1..Len(history) : Read(k)
    \/ Sync
    \/ \E f \in Faults : Break(f)
    \/ Heal

\* the log used while fsync or the creation of files fails at times
SpecFault == Init /\ [][NextFault]_vars

\* the Write that just returned failed in rotate
RotationFailed(r) == r.op = "Write" /\ r.err = "rotation failed"

\* a Write that fails in rotation appends no chunk of its entry, returns no
\* position and leaves the segment map and the active segment as they were
FailedRotationAddsNothing ==
    RotationFailed(res')
        => /\ history' = history
           /\ held' = held
           /\ active' = active
           /\ DOMAIN segments' = DOMAIN segments
           /\ DOMAIN disk' = DOMAIN disk
           /\ \A id \in DOMAIN segments :
                 Content(segments', disk', id) = Content(segments, disk, id)

\* a Write made while no system call fails succeeds, whatever failed before
LaterWriteSucceeds ==
    (res'.op = "Write" /\ fault = "none") => res'.err = "ok"

\* a Read that follows a Write that failed in rotation returns the bytes of
\* the entry whose position it is given
ReadsBackAfterFailure ==
    (RotationFailed(res) /\ res'.op = "Read" /\ res'.k \in Entries)
        => (res'.err = "ok" /\ res'.data = history[res'.k].data)

\* C21: when rotation fails inside Log.Write, Write returns an error, no
\* chunk of the entry is appended to any segment, the segment map and the
\* active segment are unchanged, the positions returned earlier still read
\* back, and a later Write succeeds once the failure is gone
C21_RotationFailureHarmless ==
    [][FailedRotationAddsNothing /\ LaterWriteSucceeds /\ ReadsBackAfterFailure]_vars

\* ---------------------------------------------------------------------
\* Entries of every length up to two full chunks and two bytes, written at
\* every fill level of the current block that writes produce
\* ---------------------------------------------------------------------

SplitLens == 0..(2 * (blockSize - chunkHeaderSize) + 2)

NextSplit ==
    \/ \E n \in SplitLens : Write(Fill(n, Issued + 1))
    \/ Sync

SpecSplit == InitLarge /\ [][NextSplit]_vars

\* the reference policy: payload sizes of the chunks of an entry of R bytes
\* written to a block with C bytes of capacity left
RECURSIVE RefRest(_)
RefRest(R) ==
    IF R <= 0 THEN <<>>
    ELSE <<Min(blockSize - chunkHeaderSize, R)>>
         \o RefRest(R - Min(blockSize - chunkHeaderSize, R))

RefSizes(C, R) ==
    IF C >= chunkHeaderSize + 1
    THEN <<Min(C - chunkHeaderSize, R)>> \o RefRest(R - Min(C - chunkHeaderSize, R))
    ELSE RefRest(R)

\* FULL, or FIRST MIDDLE* LAST
RefType(i, n) ==
    IF n = 1 THEN kFullType
    ELSE IF i = 1 THEN kFirstType
    ELSE IF i = n THEN kLastType
    ELSE kMiddleType

\* the chunk i of the reference policy lies in the current block (id, at
\* offset fill) when it is a first chunk that fits there, else at offset 0
\* of the block that follows the one of the chunk before it
RefPos(i, C, id, fill) ==
    IF C >= chunkHeaderSize + 1
    THEN [BlockId |-> id + i - 1, Offset |-> IF i = 1 THEN fill ELSE 0]
    ELSE [BlockId |-> id + i, Offset |-> 0]

RECURSIVE Payloads(_)
Payloads(chunks) ==
    IF chunks = <<>> THEN <<>> ELSE chunks[1].data \o Payloads(Tail(chunks))

\* the chunks h of an entry are those of the reference policy for a block
\* with the given id and fill level
FollowsPolicy(h, id, fill) ==
    LET ref == RefSizes(blockSize - fill, Len(h.data))
    IN /\ Len(h.chunks) = Len(ref)
       /\ Payloads(h.chunks) = h.data
       /\ \A i \in 1..Len(h.chunks) :
             /\ Len(h.chunks[i].data) = ref[i]
             /\ h.chunks[i].chunkType = RefType(i, Len(ref))
             /\ h.chunks[i].pos.BlockId = RefPos(i, blockSize - fill, id, fill).BlockId
             /\ h.chunks[i].pos.Offset = RefPos(i, blockSize - fill, id, fill).Offset
       /\ \A i, j \in 1..Len(h.chunks) :
             i < j => h.chunks[i].pos.BlockId < h.chunks[j].pos.BlockId

\* the examples: at offset 0, blockSize - 7 bytes are one FULL chunk,
\* blockSize - 6 bytes a FIRST and a 1-byte LAST, 2 * (blockSize - 7) bytes a
\* FIRST and a LAST
Examples(h, fill) ==
    /\ (fill = 0 /\ Len(h.data) = blockSize - chunkHeaderSize)
          => (Len(h.chunks) = 1 /\ h.chunks[1].chunkType = kFullType)
    /\ (fill = 0 /\ Len(h.data) = blockSize - chunkHeaderSize + 1)
          => /\ Len(h.chunks) = 2
             /\ h.chunks[1].chunkType = kFirstType
             /\ h.chunks[2].chunkType = kLastType
             /\ Len(h.chunks[2].data) = 1
    /\ (fill = 0 /\ Len(h.data) = 2 * (blockSize - chunkHeaderSize))
          => /\ Len(h.chunks) = 2
             /\ h.chunks[1].chunkType = kFirstType
             /\ h.chunks[2].chunkType = kLastType

\* C22: for every entry of at least one byte and every fill level of the
\* current block, Write produces exactly the chunks of the reference policy:
\* their sizes, their types (FULL, or FIRST MIDDLE* LAST), their blocks and
\* offsets, at most one chunk per block, payloads that concatenate to the
\* entry
C22_ChunkFitPolicy ==
    [][(/\ res'.op = "Write"
        /\ res'.err = "ok"
        /\ Len(history') = Len(history) + 1
        /\ Len(history'[Len(history')].data) >= 1)
          => /\ FollowsPolicy(history'[Len(history')],
                    IF active' # active THEN 0 ELSE segments[active].currentBlock.id,
                    IF active' # active THEN 0
                    ELSE Len(segments[active].currentBlock.data))
             /\ Examples(history'[Len(history')],
                    IF active' # active THEN 0
                    ELSE Len(segments[active].currentBlock.data))]_vars

\* the last Write found a block with fewer than 8 bytes of capacity left
\* (an entry of 3 bytes is in it) and stored its entry as a FIRST chunk that
\* fills the next block and a 1-byte LAST chunk in the block after
C22_Witness ==
    /\ res.op = "Write"
    /\ res.err = "ok"
    /\ res.k = 2
    /\ Len(history) = 2
    /\ Len(history[1].data) = 3
    /\ history[1].pos.Offset = 0
    /\ Len(history[2].chunks) = 2
    /\ history[2].chunks[1].chunkType = kFirstType
    /\ history[2].chunks[1].pos.BlockId = history[1].pos.BlockId + 1
    /\ history[2].chunks[1].pos.Offset = 0
    /\ Len(history[2].chunks[1].data) = blockSize - chunkHeaderSize
    /\ history[2].chunks[2].chunkType = kLastType
    /\ Len(history[2].chunks[2].data) = 1

\* ---------------------------------------------------------------------
\* The process dies without Close and the log is opened again
\* ---------------------------------------------------------------------

\* the process dies: what was written to the files stays, what was in the
\* block buffers and caches is lost; Open then loads the directory.  The
\* positions handed out before remain with their holders.
Crash ==
    /\ ~walClosed
    /\ epoch < MaxReopens
    /\ LET o == initialize(disk)
       IN /\ disk' = o.disk
          /\ segments' = o.segments
          /\ active' = o.active
    /\ epoch' = epoch + 1
    /\ reader' = Nil
    /\ task' = FreshTask
    /\ res' = Result("Open", 0, 0, <<>>, "ok", "crash", FALSE)
    /\ chain' = NoChain
    /\ UNCHANGED <<opts, fault, codec, got, walClosed, mu, th, history, held, tampered>>

NextCrash ==
    \/ \E n \in DataLens : Write(Fill(n, Issued + 1))
    \/ Sync
    \/ Crash
    \/ \E k \in 1..Len(history) : \E i \in 1..Len(history[k].chunks) : ReadChunk(k, i)

\* the log written, synced, killed and opened again, and read at the
\* positions of the chunks of its entries
SpecCrash == Init /\ [][NextCrash]_vars

\* the chunk that the file of segment id holds at offset off of block b
DiskChunkAt(id, b, off) ==
    LET lo == Min(Len(disk[id]), b * blockSize)
        hi == Min(Len(disk[id]), (b + 1) * blockSize)
    IN IF lo + off >= hi
       THEN [err |-> "ErrEndOfBlock", data |-> <<>>, chunkType |-> 0]
       ELSE readChunk(Slice(disk[id], lo + off, hi))

RECURSIVE DiskWalk(_, _, _, _)
\* what the chunk-type grammar makes of the chunks the file of segment id
\* holds from offset off of block b on: "invalid" when a first chunk is
\* MIDDLE or LAST or a later one FULL or FIRST, "entry" with the payloads
\* joined when they match FULL or FIRST MIDDLE* LAST, "other" when a chunk
\* is missing, damaged or empty
DiskWalk(id, b, off, entry) ==
    LET c == DiskChunkAt(id, b, off)
        next == off + chunkHeaderSize + Len(c.data)
    IN IF c.err # "ok" \/ c.data = <<>>
       THEN [kind |-> "other", data |-> <<>>]
       ELSE IF entry = <<>> /\ c.chunkType \in {kMiddleType, kLastType}
       THEN [kind |-> "invalid", data |-> <<>>]
       ELSE IF entry # <<>> /\ c.chunkType \in {kFullType, kFirstType}
       THEN [kind |-> "invalid", data |-> <<>>]
       ELSE IF c.chunkType \in {kFullType, kLastType}
       THEN [kind |-> "entry", data |-> entry \o c.data]
       ELSE IF next >= blockSize
       THEN DiskWalk(id, b + 1, 0, entry \o c.data)
       ELSE DiskWalk(id, b, next, entry \o c.data)

\* the position the last Read was given
ReadPos == history[res.k].chunks[res.c].pos

\* C23: Read returns InvalidChunkType and no data whenever the first chunk
\* at the position is MIDDLE or LAST or a chunk that follows a FIRST or
\* MIDDLE chunk is FULL or FIRST, and returns an entry only for chunks that
\* match FULL or FIRST MIDDLE* LAST
C23_ChunkTypeGrammar ==
    (res.op = "Read" /\ ~segments[ReadPos.SegmentId].closed)
        => LET w == DiskWalk(ReadPos.SegmentId, ReadPos.BlockId, ReadPos.Offset, <<>>)
           IN /\ w.kind = "invalid" => (res.err = "InvalidChunkType" /\ res.data = <<>>)
              /\ res.err = "ok" => (w.kind = "entry" /\ res.data = w.data)

\* the first byte after the last chunk of entry k, moved to offset 0 of the
\* next block when that is the end of the block
AfterLast(k) ==
    LET c == history[k].chunks[Len(history[k].chunks)]
        off == c.pos.Offset + chunkHeaderSize + Len(c.data)
    IN IF off >= blockSize
       THEN [SegmentId |-> c.pos.SegmentId, BlockId |-> c.pos.BlockId + 1, Offset |-> 0]
       ELSE [SegmentId |-> c.pos.SegmentId, BlockId |-> c.pos.BlockId, Offset |-> off]

\* C24: after Next has returned an entry, the reader's position is the
\* first byte after the last chunk of that entry, or offset 0 of the next
\* block when that reaches blockSize
C24_ReaderAdvance ==
    (res.op = "Next" /\ res.err = "ok" /\ reader # Nil)
        => \A k \in Entries : history[k].data = res.data => reader.pos = AfterLast(k)

\* C25: Next does not hand EndOfBlock to its caller: it returns an entry, or
\* Eof once no next segment exists
C25_EndOfBlockHandled ==
    res.op = "Next" => res.err # "ErrEndOfBlock"

\* ---------------------------------------------------------------------
\* A streaming reader next to writer threads
\* ---------------------------------------------------------------------

NextConcReader ==
    \/ \E t \in Writers, n \in DataLens : WriteBegin(t, Fill(n, Issued + 1))
    \/ \E t \in Writers : WriteChunk(t)
    \/ \E t \in Writers : WriteEnd(t)
    \/ Sync
    \/ \E k \in 1..Len(history) : NewReader(k)
    \/ ReaderNext

\* writer threads inside Log.Write chunk by chunk, and a Reader whose Next
\* runs whenever its own mutex allows
SpecConcReader == Init /\ [][NextConcReader]_vars

\* the step is a call of Next on the reader
IsReaderNext == reader # Nil /\ reader' # Nil /\ reader'.calls = reader.calls + 1

\* C26: whenever Next reads the segment map or a segment, no thread is
\* inside Log.Write, Log.Read or Log.Sync: the log mutex is free for Next to
\* hold
C26_ReaderUnderLogMutex ==
    [][IsReaderNext => Lock(mu)]_vars

\* C27: a Next that returns Eof leaves the reader closed; on a closed reader
\* (closed by Close or by such a Next) every Next returns Eof and reads no
\* segment, whatever has been written since, the reader stays closed, and
\* Close returns ok and changes nothing
C27_ReaderEndAbsorbing ==
    [][/\ (IsReaderNext /\ res'.err = "EOF") => reader'.closed
       /\ (IsReaderNext /\ reader.closed)
             => /\ res'.err = "EOF"
                /\ res'.data = <<>>
                /\ segments' = segments
       /\ (reader # Nil /\ reader.closed) => (reader' # Nil /\ reader'.closed)
       /\ (reader # Nil /\ reader.closed /\ res'.op = "ReaderClose")
             => /\ res'.err = "ok"
                /\ reader' = reader
                /\ segments' = segments]_vars

\* Next has just returned Eof on a reader that an earlier Next closed at the
\* end of the log, although an entry written and synced since then is in
\* the file
C27_Witness ==
    /\ reader # Nil
    /\ reader.closed
    /\ ~reader.byUser
    /\ res.op = "Next"
    /\ res.ctx = "closed"
    /\ res.err = "EOF"
    /\ Len(history) > reader.hlen
    /\ Len(history) \in Entries
    /\ EntryOnDisk(Len(history))

\* the bytes of file f from the start of its last, partial block on
TailBlock(f) == Slice(f, (Len(f) \div blockSize) * blockSize, Len(f))

\* what the current block of segment id has flushed is what the file holds
\* after its whole blocks, so that a flush appends the bytes not yet on disk
\* and no others
FlushedIsOnDisk(id) ==
    LET cb == segments[id].currentBlock
    IN /\ cb.flushed <= Len(cb.data)
       /\ Len(disk[id]) = cb.id * blockSize + cb.flushed
       /\ Slice(cb.data, 0, cb.flushed) = TailBlock(disk[id])

\* C28: opening a segment loads the partial trailing block of its file as
\* the current block (id = size div blockSize, data = the tail bytes,
\* flushed = their number); flushes append only bytes that are not on disk
\* yet and never change bytes that are; every chunk in the file stays at the
\* offset block id * blockSize + offset of its position, and every chunk
\* written since the log was opened is at that offset, in the file or in the
\* block buffer
C28_PartialBlockRecovered ==
    [][/\ (res'.op = "Open" /\ res' # res)
             => \A id \in DOMAIN segments' :
                   segments'[id].currentBlock =
                       [id |-> Len(disk[id]) \div blockSize,
                        data |-> TailBlock(disk[id]),
                        flushed |-> Len(disk[id]) % blockSize]
       /\ \A id \in DOMAIN segments :
             /\ FlushedIsOnDisk(id)
             /\ Len(disk'[id]) >= Len(disk[id])
             /\ Slice(disk'[id], 0, Len(disk[id])) = disk[id]
       /\ \A k \in 1..Len(history) : \A i \in 1..Len(history[k].chunks) :
             history[k].epoch = epoch => ChunkInSegment(history[k].chunks[i])]_vars

\* an entry was written and synced, the process died with a partial block
\* in the file, and after the log was opened again a second entry was
\* written behind the first in the same block and synced: both are in the
\* file at the offsets of their positions
C28_Witness ==
    /\ epoch = 1
    /\ res.op = "Sync"
    /\ res.err = "ok"
    /\ Len(history) = 2
    /\ history[1].epoch = 0
    /\ history[2].epoch = 1
    /\ history[1].pos = [SegmentId |-> 0, BlockId |-> 0, Offset |-> 0]
    /\ history[2].pos = [SegmentId |-> 0, BlockId |-> 0,
                         Offset |-> chunkHeaderSize + Len(history[1].data)]
    /\ history[2].data # <<>>
    /\ EntryOnDisk(1)
    /\ EntryOnDisk(2)

\* C29: once Close has returned, every segment file is a whole number of
\* blocks long and holds every chunk appended before the close; the Open
\* that follows finds no partial trailing block and starts each segment
\* with an empty current block whose id is size / blockSize
C29_ClosePadsToBlocks ==
    /\ walClosed
          => /\ \A id \in DOMAIN disk :
                   /\ segments[id].closed
                   /\ Len(disk[id]) % blockSize = 0
             /\ \A k \in 1..Len(history) : EntryOnDisk(k)
    /\ (res.op = "Open" /\ epoch > 0)
          => \A id \in DOMAIN segments :
                segments[id].currentBlock =
                    [id |-> Len(disk[id]) \div blockSize, data |-> <<>>, flushed |-> 0]

\* the log was closed with an entry of one byte in a partly filled block
\* that had never been flushed, and has just been opened again: the file is
\* one block long, the entry is in it, the current block is block 1, empty
C29_Witness ==
    /\ res.op = "Open"
    /\ epoch = 1
    /\ Len(history) = 1
    /\ Len(history[1].data) = 1
    /\ Len(disk[0]) = blockSize
    /\ EntryOnDisk(1)
    /\ segments[0].currentBlock = [id |-> 1, data |-> <<>>, flushed |-> 0]

\* C30: between operations the current block of every segment satisfies
\* 0 <= flushed <= len(data) <= blockSize and flushed < blockSize; a block
\* that is wholly on disk has been replaced by the next one, so the file
\* holds currentBlock.id whole blocks and the flushed bytes of the current
\* one
C30_BlockBufferInvariant ==
    \A id \in DOMAIN segments :
        LET cb == segments[id].currentBlock
        IN /\ 0 <= cb.flushed
           /\ cb.flushed <= Len(cb.data)
           /\ Len(cb.data) <= blockSize
           /\ cb.flushed < blockSize
           /\ cb.id >= 0
           /\ Len(disk[id]) = cb.id * blockSize + cb.flushed

\* a Sync has just flushed a block that two entries had filled to the last
\* byte: the current block is block 1, empty, nothing flushed
C30_Witness ==
    /\ res.op = "Sync"
    /\ res.err = "ok"
    /\ active = 0
    /\ Len(history) = 2
    /\ history[2].pos.BlockId = 0
    /\ history[2].pos.Offset + chunkHeaderSize + Len(history[2].data) = blockSize
    /\ Len(history[2].chunks) = 1
    /\ segments[0].currentBlock = [id |-> 1, data |-> <<>>, flushed |-> 0]
    /\ Len(disk[0]) = blockSize

\* ---------------------------------------------------------------------
\* The ticker and the goroutine of WAL.periodicSync, step by step
\* ---------------------------------------------------------------------

\* a periodicSync that returns when a tick's Sync fails
afterTickStopOnError(err) == IF err # "ok" THEN "exited" ELSE "select"

\* where periodicSync goes after a tick: the error of Sync is printed and
\* the loop goes round to the select again
afterTick(err) == "select"

\* time.Ticker: a tick is put in ticker.C; a tick that finds the channel
\* full is dropped, a stopped ticker sends nothing
TimerFire ==
    /\ ~task.stopped
    /\ ~task.pending
    /\ task' = [task EXCEPT !.pending = TRUE]
    /\ UNCHANGED <<opts, fault, codec, got, disk, segments, active, walClosed, mu, th,
                   reader, epoch, history, held, tampered, res, chain>>

\* periodicSync: the select takes the tick from ticker.C
TickTake ==
    /\ task.pc = "select"
    /\ task.pending
    /\ task' = [task EXCEPT !.pc = "tick", !.pending = FALSE]
    /\ UNCHANGED <<opts, fault, codec, got, disk, segments, active, walClosed, mu, th,
                   reader, epoch, history, held, tampered, res, chain>>

\* periodicSync: lock, sync the active segment, report an error, unlock
TickSync ==
    /\ task.pc = "tick"
    /\ Lock(mu)
    /\ LET sy == SegSync(segments[active], disk[active])
       IN /\ segments' = [segments EXCEPT ![active] = sy.seg]
          /\ disk' = [disk EXCEPT ![active] = sy.file]
          /\ res' = Result("Tick", 0, 0, <<>>, sy.err,
                           IF walClosed THEN "closed" ELSE "open", FALSE)
          /\ chain' = SyncChain(sy.err)
          /\ task' = [task EXCEPT !.pc = afterTick(sy.err)]
    /\ UNCHANGED <<opts, fault, codec, got, active, walClosed, mu, th, reader, epoch,
                   history, held, tampered>>

\* periodicSync: the select finds closeC closed and the goroutine returns
TaskExit ==
    /\ task.pc = "select"
    /\ walClosed
    /\ task' = [task EXCEPT !.pc = "exited"]
    /\ UNCHANGED <<opts, fault, codec, got, disk, segments, active, walClosed, mu, th,
                   reader, epoch, history, held, tampered, res, chain>>

NextTicker ==
    \/ \E t \in Writers, n \in DataLens : WriteBegin(t, Fill(n, Issued + 1))
    \/ \E t \in Writers : WriteChunk(t)
    \/ \E t \in Writers : WriteEnd(t)
    \/ TimerFire
    \/ TickTake
    \/ TickSync
    \/ TaskExit
    \/ fault = "none" /\ Close
    \/ Break("fsync")
    \/ Heal

\* the timer keeps firing, the goroutine of periodicSync keeps running and
\* gets the mutex when it is free again and again, a thread inside Write
\* runs on to its return
FairTicker ==
    /\ WF_vars(TimerFire)
    /\ WF_vars(TickTake)
    /\ SF_vars(TickSync)
    /\ WF_vars(TaskExit)
    /\ \A t \in Writers : WF_vars(WriteChunk(t)) /\ WF_vars(WriteEnd(t))

\* writer threads, Close (called while no system call fails) and the
\* periodic sync task, with no caller of Sync
SpecTicker == Init /\ [][NextTicker]_vars /\ FairTicker

\* the step in which periodicSync has made its Sync
IsTick == task.pc = "tick" /\ task'.pc # "tick"

\* C31: while the log stays open, every entry that a Write returned
\* is in time written to its segment file by the periodic sync alone, and a
\* tick whose Sync fails leaves the task in its loop
C31_PeriodicSyncProgress ==
    /\ \A k \in 1..MaxWrites :
          (Len(history) >= k) ~> (walClosed \/ (Len(history) >= k /\ EntryOnDisk(k)))
    /\ [][(IsTick /\ res'.err # "ok") => task'.pc = "select"]_vars

\* a tick has written the only entry, of one byte, to the file, which holds
\* that chunk and nothing else
C31_Witness ==
    /\ res.op = "Tick"
    /\ res.err = "ok"
    /\ ~walClosed
    /\ Len(history) = 1
    /\ Len(history[1].data) = 1
    /\ EntryOnDisk(1)
    /\ Len(disk[0]) = chunkHeaderSize + 1

BreakWrite ==
    /\ Cardinality(DOMAIN disk) <= MaxWrites
    /\ \A id \in DOMAIN disk : Len(disk[id]) <= blockSize
    /\ Break("write")

NextWriteFault ==
    \/ \E n \in DataLens : Write(Fill(n, Issued + 1))
    \/ Sync
    \/ BreakWrite
    \/ Heal

\* the log used while fd.Write of flushBlock fails at times
SpecWriteFault == Init /\ [][NextWriteFault]_vars

\* the current block of segment id before it exists: that of NewSegment on
\* an empty file
BlockBefore(id) ==
    IF id \in DOMAIN segments THEN segments[id].currentBlock
    ELSE NewSegment(id, <<>>).currentBlock

\* C33: a Write that fails in a flush leaves no chunk of its entry behind:
\* the file of the active segment is as before and its block buffer holds
\* what it held, at most padded with zeros
C33_FailedWriteAtomic ==
    [][(res'.op = "Write" /\ res'.err = "write failed")
         => /\ \A id \in DOMAIN disk : disk'[id] = disk[id]
            /\ segments'[active'].currentBlock.id = BlockBefore(active').id
            /\ segments'[active'].currentBlock.flushed = BlockBefore(active').flushed
            /\ PaddedOnly(BlockBefore(active').data,
                          segments'[active'].currentBlock.data)]_vars

\* C34: a Read at the position a Write returned gives the bytes of that
\* Write or an error, never other bytes
C34_ReadNeverWrongBytes ==
    (res.op = "Read" /\ res.c = 1 /\ res.k \in 1..Len(history) /\ res.err = "ok")
        => res.data = history[res.k].data

\* C35: the Position a caller got from Write and passed to NewReader keeps
\* its value whatever the reader does
C35_CallerPositionUntouched ==
    \A k \in 1..Len(history) : held[k] = history[k].pos

\* ---------------------------------------------------------------------
\* Reads and the write path
\* ---------------------------------------------------------------------

\* the segments as they would be had no Read been made: block caches as
\* NewSegment leaves them, file offsets at the end of the files, where
\* NewSegment and every fd.Write leave them
Forget(segs, d) ==
    [id \in DOMAIN segs |->
        [segs[id] EXCEPT !.cachedBlock = [id |-> -1, data |-> Zeros(blockSize)],
                         !.offset = Len(d[id])]]

\* two outcomes of WAL.Write agree in everything but what Reads leave behind
SameWritePath(a, b) ==
    /\ a.err = b.err
    /\ a.pos = b.pos
    /\ a.poss = b.poss
    /\ a.active = b.active
    /\ a.disk = b.disk
    /\ Forget(a.segments, a.disk) = Forget(b.segments, b.disk)

\* the next Write of any entry, and the next Sync, do to the files and the
\* block buffers what they would do had no Read been made, and the Write
\* returns the same position
WritePathIgnoresReads ==
    /\ \A n \in DataLens :
          SameWritePath(WalWrite(segments, disk, active, Fill(n, Issued + 1)),
                        WalWrite(Forget(segments, disk), disk, active,
                                 Fill(n, Issued + 1)))
    /\ LET a == SegSync(segments[active], disk[active])
           b == SegSync(Forget(segments, disk)[active], disk[active])
       IN /\ a.err = b.err
          /\ a.file = b.file
          /\ a.seg.currentBlock = b.seg.currentBlock

\* a Read changes no file, no current block and no Size
ReadFrame ==
    res'.op = "Read"
        => /\ disk' = disk
           /\ active' = active
           /\ DOMAIN segments' = DOMAIN segments
           /\ \A id \in DOMAIN segments :
                 /\ segments'[id].currentBlock = segments[id].currentBlock
                 /\ segments'[id].closed = segments[id].closed
                 /\ Size(segments'[id]) = Size(segments[id])

\* C36: a Read changes neither the current block, nor Size, nor the files,
\* and what later Writes and Syncs put in the files, and the positions they
\* return, do not depend on the Reads made before
C36_ReadLeavesWritePath ==
    /\ [][ReadFrame]_vars
    /\ []WritePathIgnoresReads

\* a Read has left the file offset of the active segment inside the file
\* while the current block holds bytes that are still to be flushed
C36_Witness ==
    /\ res.op = "Read"
    /\ res.err = "ok"
    /\ res.data = history[res.k].data
    /\ ~segments[active].closed
    /\ segments[active].offset < Len(disk[active])
    /\ segments[active].currentBlock.flushed < Len(segments[active].currentBlock.data)

\* ---------------------------------------------------------------------
\* Positions and the timing of Sync
\* ---------------------------------------------------------------------

RECURSIVE WritesAlone(_, _, _, _)
\* the positions that the Writes of history from the i-th on return when
\* they are made one after the other with no Sync and no tick in between
WritesAlone(segs, d, act, i) ==
    IF i > Len(history) THEN <<>>
    ELSE LET rest(w) == <<w.pos>> \o WritesAlone(w.segments, w.disk, w.active, i + 1)
         IN rest(WalWrite(segs, d, act, history[i].data))

\* C37: on a log opened on an empty directory, the positions the Writes
\* returned are those the same Writes return when no Sync is made
C37_PositionsIgnoreSyncTiming ==
    LET same(ref) == \A k \in 1..Len(history) : history[k].pos = ref[k]
    IN epoch = 0 => same(WritesAlone((0 :> NewSegment(0, <<>>)), (0 :> <<>>), 0, 1))

\* C38: a Close that directly follows an Open on a directory whose files
\* are whole blocks leaves every file as it was
C38_OpenCloseNoOp ==
    [][(/\ res.op = "Open"
        /\ epoch > 0
        /\ \A id \in DOMAIN disk : Len(disk[id]) % blockSize = 0
        /\ res'.op = "Close")
         => disk' = disk]_vars

\* ---------------------------------------------------------------------
\* The mutexes: WAL.mu and Reader.mu, taken and released step by step
\* ---------------------------------------------------------------------

\* the holder of WAL.mu when it is the goroutine of periodicSync
TaskId == NumWriters + 1

\* the calls that take WAL.mu (Write is entered by EnterWrite), and those
\* that take Reader.mu
LogOps == {"Read", "Sync", "Close", "NewReader"}

ReaderOps == {"Next", "ReaderClose"}

\* the calls that thread t makes: the first thread writes, closes the log
\* and iterates, the others read, sync, open the reader and close it
Repertoire(t) ==
    IF t = 1 THEN {"Write", "Close", "Next"}
    ELSE {"Read", "Sync", "NewReader", "ReaderClose"}

\* an Unlock that is skipped when the call returns an error
UnlockUnlessError(t, err) == IF err = "ok" THEN 0 ELSE t

\* defer mu.Unlock(): the mutex that thread t holds is free when its call
\* returns, whatever it returns
Unlock(t, err) == 0

\* thread t calls an operation of the log (m = "log") or of the reader
\* (m = "reader") and stands at its mu.Lock()
Call(t, m) ==
    /\ th[t].pc = "idle"
    /\ m = "reader" => /\ reader # Nil
                       /\ "Next" \in Repertoire(t) => reader.calls < MaxNexts
    /\ th' = [th EXCEPT ![t] = [pc |-> "wait", m |-> m]]
    /\ UNCHANGED <<opts, fault, task, codec, got, disk, segments, active, walClosed, mu,
                   reader, epoch, history, held, tampered, res, chain>>

\* thread t, waiting in WAL.Write(data), gets WAL.mu
LockWrite(t, data) ==
    /\ th[t].pc = "wait"
    /\ th[t].m = "log"
    /\ "Write" \in Repertoire(t)
    /\ history = <<>>
    /\ EnterWrite(t, data)

\* thread t, waiting in Read, Sync, Close or NewReader, gets WAL.mu
LockLog(t, op, k) ==
    /\ th[t].pc = "wait"
    /\ th[t].m = "log"
    /\ op \in Repertoire(t)
    /\ Lock(mu)
    /\ IF op \in {"Read", "NewReader"}
       THEN k \in 1..Len(history) /\ held[k] # Nil
       ELSE k = 0
    /\ op = "Read" => k = Len(history)
    /\ op = "NewReader" => reader = Nil
    /\ mu' = t
    /\ th' = [th EXCEPT ![t] = [pc |-> "in", op |-> op, k |-> k]]
    /\ UNCHANGED <<opts, fault, task, codec, got, disk, segments, active, walClosed,
                   reader, epoch, history, held, tampered, res, chain>>

\* WAL.Read returns: body and deferred Unlock
ReadReturn(t) ==
    /\ th[t].pc = "in"
    /\ th[t].op = "Read"
    /\ \E r \in {WalRead(segments, disk, held[th[t].k])} :
          /\ segments' = r.segments
          /\ res' = Result("Read", th[t].k, 1, r.data, r.err, "none",
                           CacheHit(segments, held[th[t].k]))
          /\ mu' = Unlock(t, r.err)
    /\ th' = [th EXCEPT ![t] = Idle]
    /\ chain' = NoChain
    /\ UNCHANGED <<opts, fault, task, codec, got, disk, active, walClosed, reader, epoch,
                   history, held, tampered>>

\* WAL.Sync returns
SyncReturn(t) ==
    /\ th[t].pc = "in"
    /\ th[t].op = "Sync"
    /\ \E sy \in {SegSync(segments[active], disk[active])} :
          /\ segments' = [segments EXCEPT ![active] = sy.seg]
          /\ disk' = [disk EXCEPT ![active] = sy.file]
          /\ res' = Result("Sync", 0, 0, <<>>, sy.err, "none", FALSE)
          /\ chain' = SyncChain(sy.err)
          /\ mu' = Unlock(t, sy.err)
    /\ th' = [th EXCEPT ![t] = Idle]
    /\ UNCHANGED <<opts, fault, task, codec, got, active, walClosed, reader, epoch,
                   history, held, tampered>>

\* WAL.Close returns
CloseReturn(t) ==
    /\ th[t].pc = "in"
    /\ th[t].op = "Close"
    /\ IF walClosed
       THEN /\ UNCHANGED <<segments, disk, walClosed, task>>
            /\ res' = Result("Close", 0, 0, <<>>, "ok", "closed", FALSE)
            /\ mu' = Unlock(t, "ok")
       ELSE \E c \in {closeAll(segments, disk)} :
               /\ segments' = c.segments
               /\ disk' = c.disk
               /\ walClosed' = TRUE
               /\ task' = [task EXCEPT !.stopped = TRUE]
               /\ res' = Result("Close", 0, 0, <<>>, c.err, "open", FALSE)
               /\ mu' = Unlock(t, c.err)
    /\ th' = [th EXCEPT ![t] = Idle]
    /\ chain' = NoChain
    /\ UNCHANGED <<opts, fault, codec, got, active, reader, epoch, history, held, tampered>>

\* WAL.NewReader returns
NewReaderReturn(t) ==
    /\ th[t].pc = "in"
    /\ th[t].op = "NewReader"
    /\ LET k == th[t].k
       IN IF held[k].SegmentId \notin DOMAIN segments
          THEN /\ reader' = reader
               /\ res' = Result("NewReader", k, 0, <<>>, "SegmentNotFound", "none", FALSE)
               /\ mu' = Unlock(t, "SegmentNotFound")
          ELSE /\ reader' = [pos |-> held[k], current |-> held[k].SegmentId,
                             closed |-> FALSE, mu |-> 0, byUser |-> FALSE, alias |-> k,
                             start |-> k, calls |-> 0, hlen |-> Len(history),
                             synced |-> res.op = "Sync" /\ res.err = "ok"]
               /\ res' = Result("NewReader", k, 0, <<>>, "ok", "none", FALSE)
               /\ mu' = Unlock(t, "ok")
    /\ th' = [th EXCEPT ![t] = Idle]
    /\ chain' = NoChain
    /\ UNCHANGED <<opts, fault, task, codec, got, disk, segments, active, walClosed, epoch,
                   history, held, tampered>>

\* thread t, waiting in Reader.Next or Reader.Close, gets Reader.mu
LockReader(t, op) ==
    /\ th[t].pc = "wait"
    /\ th[t].m = "reader"
    /\ op \in Repertoire(t)
    /\ reader.mu = 0
    /\ reader' = [reader EXCEPT !.mu = t]
    /\ th' = [th EXCEPT ![t] = [pc |-> "in", op |-> op, k |-> 0]]
    /\ UNCHANGED <<opts, fault, task, codec, got, disk, segments, active, walClosed, mu,
                   epoch, history, held, tampered, res, chain>>

\* Reader.Next returns; it has taken Reader.mu only
NextReturn(t) ==
    /\ th[t].pc = "in"
    /\ th[t].op = "Next"
    /\ IF reader.closed
       THEN /\ res' = Result("Next", reader.start + reader.calls, 0, <<>>, "EOF",
                             "closed", FALSE)
            /\ reader' = [reader EXCEPT !.calls = @ + 1, !.mu = Unlock(t, "EOF")]
            /\ UNCHANGED <<segments, held>>
       ELSE \E n \in {nextLoop(segments, disk, reader.pos, reader.current,
                               reader.alias # 0)} :
               /\ segments' = n.segments
               /\ reader' = [reader EXCEPT !.pos = n.pos, !.current = n.current,
                                           !.closed = n.closed,
                                           !.alias = IF n.aliased THEN @ ELSE 0,
                                           !.calls = @ + 1,
                                           !.mu = Unlock(t, n.err)]
               /\ held' = IF n.aliased THEN [held EXCEPT ![reader.alias] = n.pos]
                          ELSE held
               /\ res' = Result("Next", reader.start + reader.calls, 0, n.data, n.err,
                                "none", FALSE)
    /\ th' = [th EXCEPT ![t] = Idle]
    /\ chain' = NoChain
    /\ UNCHANGED <<opts, fault, task, codec, got, disk, active, walClosed, mu, epoch,
                   history, tampered>>

\* Reader.Close returns
ReaderCloseReturn(t) ==
    /\ th[t].pc = "in"
    /\ th[t].op = "ReaderClose"
    /\ reader' = IF reader.closed THEN [reader EXCEPT !.mu = Unlock(t, "ok")]
                 ELSE [reader EXCEPT !.closed = TRUE, !.byUser = TRUE, !.alias = 0,
                                     !.mu = Unlock(t, "ok")]
    /\ res' = Result("ReaderClose", 0, 0, <<>>, "ok",
                     IF reader.closed THEN "closed" ELSE "open", FALSE)
    /\ th' = [th EXCEPT ![t] = Idle]
    /\ chain' = NoChain
    /\ UNCHANGED <<opts, fault, task, codec, got, disk, segments, active, walClosed, mu,
                   epoch, history, held, tampered>>

\* periodicSync, having taken a tick, gets WAL.mu
TickLock ==
    /\ task.pc = "tick"
    /\ Lock(mu)
    /\ mu' = TaskId
    /\ task' = [task EXCEPT !.pc = "locked"]
    /\ UNCHANGED <<opts, fault, codec, got, disk, segments, active, walClosed, th,
                   reader, epoch, history, held, tampered, res, chain>>

\* periodicSync makes its Sync and releases WAL.mu
TickUnlock ==
    /\ task.pc = "locked"
    /\ \E sy \in {SegSync(segments[active], disk[active])} :
          /\ segments' = [segments EXCEPT ![active] = sy.seg]
          /\ disk' = [disk EXCEPT ![active] = sy.file]
          /\ res' = Result("Tick", 0, 0, <<>>, sy.err,
                           IF walClosed THEN "closed" ELSE "open", FALSE)
          /\ chain' = SyncChain(sy.err)
          /\ task' = [task EXCEPT !.pc = afterTick(sy.err)]
          /\ mu' = Unlock(TaskId, sy.err)
    /\ UNCHANGED <<opts, fault, codec, got, active, walClosed, th, reader, epoch,
                   history, held, tampered>>

\* thread t gets the mutex it waits for
LockAny(t) ==
    \/ LockWrite(t, Fill(blockSize - chunkHeaderSize + 1, Len(history) + 1))
    \/ \E op \in LogOps, k \in 0..Len(history) : LockLog(t, op, k)
    \/ \E op \in ReaderOps : LockReader(t, op)

\* thread t, holding a mutex, runs on to the return of its call
ReturnAny(t) ==
    \/ WriteChunk(t)
    \/ WriteEnd(t)
    \/ ReadReturn(t)
    \/ SyncReturn(t)
    \/ CloseReturn(t)
    \/ NewReaderReturn(t)
    \/ NextReturn(t)
    \/ ReaderCloseReturn(t)

NextLocks ==
    \/ \E t \in Writers, m \in {"log", "reader"} : Call(t, m)
    \/ \E t \in Writers : LockAny(t)
    \/ \E t \in Writers : ReturnAny(t)
    \/ task.pc = "select" /\ TimerFire
    \/ TickTake
    \/ TickLock
    \/ TickUnlock
    \/ TaskExit

\* thread t is inside a call, holding the call's mutex: ReturnAny(t) is
\* enabled exactly then
Running(t) == th[t].pc = "in" \/ th[t].pc = "writing"

\* threads that hold a mutex keep running (weak fairness of ReturnAny(t),
\* written out with Running(t) for its enabling condition), and the
\* mutexes are fair
FairLocks ==
    /\ \A t \in Writers : SF_vars(LockAny(t))
    /\ \A t \in Writers : []<>(~Running(t)) \/ []<><<ReturnAny(t)>>_vars
    /\ WF_vars(TickTake)
    /\ SF_vars(TickLock)
    /\ WF_vars(TickUnlock)

\* threads calling Write, Read, Sync, Close, NewReader, Next and
\* Reader.Close at will, and the periodic sync task
SpecLocks == Init /\ [][NextLocks]_vars /\ FairLocks

\* whoever holds a mutex is inside the call that took it, and whoever is
\* inside a call holds its mutex and waits for no other
HoldersRun ==
    /\ mu \in {0, TaskId} \cup Writers
    /\ mu = TaskId <=> task.pc = "locked"
    /\ \A t \in Writers :
          /\ mu = t <=> \/ th[t].pc = "writing"
                        \/ th[t].pc = "in" /\ th[t].op \in LogOps
          /\ (reader # Nil /\ reader.mu = t)
                <=> (th[t].pc = "in" /\ th[t].op \in ReaderOps)
    /\ reader # Nil => reader.mu \in {0} \cup Writers

\* C39: a mutex is held only by a thread that is running inside the call
\* that took it, so it is released; every thread that waits for a mutex
\* gets it and every call returns
C39_NoDeadlock ==
    /\ []HoldersRun
    /\ \A t \in Writers : (th[t].pc # "idle") ~> (th[t].pc = "idle")
    /\ (task.pc = "tick") ~> (task.pc = "select")

\* one thread is inside Reader.Next with the reader's mutex, another holds
\* the log's mutex, and the periodic sync task waits for it
C39_Witness ==
    /\ reader # Nil
    /\ reader.mu \in Writers
    /\ th[reader.mu].op = "Next"
    /\ mu \in Writers
    /\ mu # reader.mu
    /\ task.pc = "tick"

====
